-------------------------- MODULE MediaCacheProofs --------------------------
(***************************************************************************)
(* Theorems about MediaCache, for any number of URLs, tasks and inodes,    *)
(* any length of a body and any number of restarts.                        *)
(*                                                                         *)
(* An entry is whole because the inode a task writes to is reached by no   *)
(* other name and no other task, unless the URL was raced.  IndInv says    *)
(* which inodes a name, a handle and the body they lead to may share.      *)
(***************************************************************************)
EXTENDS MediaCache, TLAPS

\* Two names never lead to one inode.
NamesApart ==
  /\ \A u, v \in Urls : file[u] # None => file[u] # tmp[v]
  /\ \A u, v \in Urls : u # v /\ file[u] # None => file[u] # file[v]
  /\ \A u, v \in Urls : u # v /\ tmp[u] # None => tmp[u] # tmp[v]

\* An inode a task writes to is reached by the temporary name of its URL only; or
\* by the entry, when another task renamed it.
HandlesApart == \A t \in Tasks : handle[t] # None =>
  /\ \A v \in Urls : file[v] = handle[t] => v = url[t] /\ v \in raced
  /\ \A v \in Urls : tmp[v] = handle[t] => v = url[t]
  /\ \A s \in Tasks : handle[s] = handle[t] => url[s] = url[t]

\* Of a URL that was not raced there is one writer at a time.
OneWriter == \A s, t \in Tasks :
  s \in Writers(url[t]) /\ t \in Writers(url[t]) /\ s # t => url[t] \in raced

\* Its inode holds what it has written so far, and all of it once it is closed,
\* but for a last chunk that failed unseen.
WrittenSoFar == \A t \in Tasks :
  /\ pc[t] = "writing" => written[t] < Chunks
  /\ pc[t] = "writing" /\ url[t] \notin raced =>
       /\ body[handle[t]] = 1..written[t]
       /\ tmp[url[t]] \in {None, handle[t]}
  /\ pc[t] = "renaming" /\ url[t] \notin raced /\ tmp[url[t]] # None =>
       body[tmp[url[t]]] = Whole \/ tmp[url[t]] \in cut

IndInv == TypeOK /\ NamesApart /\ HandlesApart /\ OneWriter /\ WrittenSoFar /\ WholeUnlessRacedOrCut

-----------------------------------------------------------------------------
LEMMA InitEstablishes == Init => IndInv
  BY CacheAssumption DEF Init, IndInv, TypeOK, NamesApart, HandlesApart, OneWriter, Writers,
     WrittenSoFar, WholeUnlessRacedOrCut, Whole, Entries

\* The steps of a fetch that touch neither a name, nor a body, nor a handle, and
\* end where a task is no writer.
LEMMA QuietStepKeeps ==
  ASSUME IndInv, NEW t \in Tasks,
         UNCHANGED <<file, tmp, body, handle, written, pruning, starts, raced, cut>>,
         meta' \subseteq Urls,
         pc[t] \notin {"writing", "renaming"},
         url' = url \/ \E u \in Urls : url' = [url EXCEPT ![t] = u],
         locks' \in {locks, locks \union {url[t]}, locks \ {url[t]}},
         \E place \in {"idle", "marking", "rechecking", "downloading", "creating"} :
           pc' = [pc EXCEPT ![t] = place]
  PROVE  IndInv'
<1> USE DEF IndInv
<1>1. TypeOK'
  BY DEF TypeOK, pruning
<1>2. NamesApart' /\ WholeUnlessRacedOrCut'
  BY DEF NamesApart, WholeUnlessRacedOrCut
<1>3. \A s \in Tasks : s # t => pc'[s] = pc[s] /\ url'[s] = url[s]
  BY DEF TypeOK
<1>4. pc'[t] \notin {"writing", "renaming"} /\ handle'[t] = None
  BY DEF TypeOK
<1>5. HandlesApart'
  BY <1>3, <1>4 DEF HandlesApart
<1>6. OneWriter'
  BY <1>3, <1>4 DEF OneWriter, Writers
<1>7. WrittenSoFar'
  BY <1>3, <1>4 DEF WrittenSoFar, Whole
<1> QED BY <1>1, <1>2, <1>5, <1>6, <1>7

LEMMA CreateKeeps ==
  ASSUME IndInv, NEW t \in Tasks, Create(t)
  PROVE  IndInv'
<1> DEFINE u == url[t]
<1>1. PICK i \in Opened(tmp[u]) :
        /\ pc[t] = "creating"
        /\ tmp' = [tmp EXCEPT ![u] = i]
        /\ body' = [body EXCEPT ![i] = {}]
        /\ handle' = [handle EXCEPT ![t] = i]
        /\ written' = [written EXCEPT ![t] = 0]
        /\ raced' = (IF Writers(u) = {} THEN raced ELSE raced \union {u})
        /\ cut' = cut \ {i}
        /\ pc' = [pc EXCEPT ![t] = "writing"]
        /\ UNCHANGED <<file, meta, locks, url, pruning, starts>>
  BY DEF Create, Goto
<1>2. u \in Urls
  BY DEF IndInv, TypeOK
<1>3. i \in Inodes /\ i # None
  BY <1>1, <1>2, CacheAssumption DEF Opened, Unlinked, IndInv, TypeOK
<1>4. /\ \A v \in Urls : file[v] # i
      /\ \A v \in Urls : tmp[v] = i => v = u
      /\ \A s \in Tasks : handle[s] = i => url[s] = u
  BY <1>1, <1>2, <1>3 DEF Opened, Unlinked, IndInv, TypeOK, NamesApart, HandlesApart
<1>5. \A s \in Tasks : handle[s] = i => s \in Writers(u) /\ u \in raced'
  BY <1>1, <1>3, <1>4 DEF IndInv, TypeOK, Writers
<1>6. TypeOK'
  BY <1>1, <1>2, <1>3, CacheAssumption DEF IndInv, TypeOK, pruning, Whole
<1>7. NamesApart'
  BY <1>1, <1>2, <1>3, <1>4 DEF IndInv, TypeOK, NamesApart
<1>8. HandlesApart'
  BY <1>1, <1>2, <1>3, <1>4, <1>5 DEF IndInv, TypeOK, HandlesApart
<1>9. OneWriter'
  BY <1>1, <1>2 DEF IndInv, TypeOK, OneWriter, Writers
<1>10. WrittenSoFar'
  <2> SUFFICES ASSUME NEW s \in Tasks
               PROVE  /\ pc'[s] = "writing" => written'[s] < Chunks
                      /\ pc'[s] = "writing" /\ url'[s] \notin raced' =>
                           /\ body'[handle'[s]] = 1..written'[s]
                           /\ tmp'[url'[s]] \in {None, handle'[s]}
                      /\ pc'[s] = "renaming" /\ url'[s] \notin raced' /\ tmp'[url'[s]] # None =>
                           body'[tmp'[url'[s]]] = Whole \/ tmp'[url'[s]] \in cut'
    BY DEF WrittenSoFar, Whole
  <2>1. CASE s = t
    BY <1>1, <1>2, <1>3, <2>1, CacheAssumption DEF IndInv, TypeOK
  <2>2. CASE s # t
    <3>1. /\ pc'[s] = pc[s] /\ url'[s] = url[s] /\ handle'[s] = handle[s]
          /\ written'[s] = written[s] /\ raced \subseteq raced'
      BY <1>1, <2>2 DEF IndInv, TypeOK
    <3>2. CASE url[s] = u
      <4>1. s \in Writers(u) => u \in raced'
        BY <1>1
      <4> QED BY <3>1, <3>2, <4>1 DEF Writers, IndInv, WrittenSoFar
    <3>3. CASE url[s] # u
      <4>1. tmp'[url[s]] = tmp[url[s]] /\ tmp[url[s]] # i /\ handle[s] # i
        BY <1>1, <1>2, <1>3, <1>4, <3>3 DEF IndInv, TypeOK
      <4>2. \A j : j # i => body'[j] = body[j] /\ (j \in cut => j \in cut')
        BY <1>1 DEF IndInv, TypeOK
      <4> QED BY <3>1, <4>1, <4>2 DEF IndInv, WrittenSoFar
    <3> QED BY <3>2, <3>3
  <2> QED BY <2>1, <2>2
<1>11. WholeUnlessRacedOrCut'
  BY <1>1, <1>3, <1>4 DEF IndInv, TypeOK, WholeUnlessRacedOrCut
<1> QED BY <1>6, <1>7, <1>8, <1>9, <1>10, <1>11 DEF IndInv

LEMMA WriteKeeps ==
  ASSUME IndInv, NEW t \in Tasks, Write(t)
  PROVE  IndInv'
<1> DEFINE u == url[t]
           i == handle[t]
           n == written[t] + 1
<1>1. /\ pc[t] = "writing"
      /\ UNCHANGED <<file, tmp, meta, locks, url, pruning, starts, raced>>
  BY DEF Write
<1>1a. \/ body' = [body EXCEPT ![i] = @ \union {n}] /\ cut' = cut
       \/ n = Chunks /\ body' = body /\ cut' = cut \union {i}
  BY DEF Write
<1>2. u \in Urls /\ i \in Inodes /\ i # None /\ written[t] \in Nat /\ n <= Chunks
  BY <1>1, CacheAssumption DEF IndInv, TypeOK, WrittenSoFar
<1>3. \/ n = Chunks /\ pc' = [pc EXCEPT ![t] = "renaming"]
         /\ handle' = [handle EXCEPT ![t] = None] /\ written' = [written EXCEPT ![t] = 0]
      \/ n # Chunks /\ pc' = pc /\ handle' = handle /\ written' = [written EXCEPT ![t] = n]
  BY DEF Write, Goto
<1>4. TypeOK'
  <2>1. body' \in [Inodes -> SUBSET Whole] /\ cut' \subseteq Inodes
    BY <1>1a, <1>2 DEF IndInv, TypeOK, Whole
  <2> QED BY <1>1, <1>2, <1>3, <2>1, CacheAssumption DEF IndInv, TypeOK, pruning
<1>5. NamesApart'
  BY <1>1 DEF IndInv, NamesApart
<1>6. HandlesApart'
  BY <1>1, <1>2, <1>3 DEF IndInv, TypeOK, HandlesApart
<1>7. \A s \in Tasks : s \in Writers(url[s])' <=> s \in Writers(url[s])
  BY <1>1, <1>3 DEF IndInv, TypeOK, Writers
<1>8. OneWriter'
  BY <1>1, <1>3 DEF IndInv, TypeOK, OneWriter, Writers
<1>9. /\ \A j \in Inodes : j # i => body'[j] = body[j]
      /\ body'[i] = body[i] \union {n} \/ (n = Chunks /\ i \in cut')
      /\ \A j \in Inodes : j # i => (j \in cut' <=> j \in cut)
  BY <1>1a, <1>2 DEF IndInv, TypeOK
<1>10. WrittenSoFar'
  <2> SUFFICES ASSUME NEW s \in Tasks
               PROVE  /\ pc'[s] = "writing" => written'[s] < Chunks
                      /\ pc'[s] = "writing" /\ url'[s] \notin raced' =>
                           /\ body'[handle'[s]] = 1..written'[s]
                           /\ tmp'[url'[s]] \in {None, handle'[s]}
                      /\ pc'[s] = "renaming" /\ url'[s] \notin raced' /\ tmp'[url'[s]] # None =>
                           body'[tmp'[url'[s]]] = Whole \/ tmp'[url'[s]] \in cut'
    BY DEF WrittenSoFar, Whole
  <2>1. CASE s = t
    <3>1. u \notin raced => body'[i] = 1..n \/ (n = Chunks /\ i \in cut')
      <4>1. u \notin raced => body[i] = 1..written[t]
        BY <1>1 DEF IndInv, WrittenSoFar
      <4>2. (1..written[t]) \union {n} = 1..n
        BY <1>2
      <4> QED BY <1>9, <4>1, <4>2
    <3>2. u \notin raced => tmp[u] \in {None, i}
      BY <1>1 DEF IndInv, WrittenSoFar
    <3>3. written'[t] = (IF n = Chunks THEN 0 ELSE n) /\ handle'[t] = (IF n = Chunks THEN None ELSE i)
      BY <1>3 DEF IndInv, TypeOK
    <3>4. pc'[t] = (IF n = Chunks THEN "renaming" ELSE "writing")
      BY <1>1, <1>3 DEF IndInv, TypeOK
    <3>5. CASE n = Chunks
      <4>1. pc'[t] = "renaming" /\ url'[t] = u /\ tmp'[u] = tmp[u]
        BY <1>1, <3>4, <3>5
      <4>2. u \notin raced /\ tmp[u] # None =>
              tmp[u] = i /\ (body'[i] = Whole \/ i \in cut')
        BY <3>1, <3>2, <3>5 DEF Whole
      <4> QED BY <1>1, <2>1, <4>1, <4>2
    <3>6. CASE n # Chunks
      <4>1. n < Chunks /\ written'[t] = n /\ handle'[t] = i /\ pc'[t] = "writing"
        BY <1>2, <3>3, <3>4, <3>6, CacheAssumption
      <4>2. u \notin raced => body'[i] = 1..n /\ tmp'[u] \in {None, i} /\ url'[t] = u
        BY <1>1, <3>1, <3>2, <3>6
      <4> QED BY <1>1, <2>1, <4>1, <4>2
    <3> QED BY <3>5, <3>6
  <2>2. CASE s # t
    <3>1. pc'[s] = pc[s] /\ handle'[s] = handle[s] /\ written'[s] = written[s]
      BY <1>3, <2>2 DEF IndInv, TypeOK
    <3>2. CASE url[s] = u
      <4>1. s \in Writers(u) => u \in raced
        BY <1>1, <2>2, <3>2 DEF IndInv, OneWriter, Writers
      <4> QED BY <1>1, <3>1, <3>2, <4>1 DEF Writers, IndInv, WrittenSoFar
    <3>3. CASE url[s] # u
      <4>1. handle[s] # i /\ tmp[url[s]] # i
        BY <1>2, <3>3 DEF IndInv, TypeOK, HandlesApart
      <4>2. /\ pc[s] = "writing" => body'[handle[s]] = body[handle[s]]
            /\ tmp[url[s]] # None =>
                 /\ body'[tmp[url[s]]] = body[tmp[url[s]]]
                 /\ tmp[url[s]] \in cut' <=> tmp[url[s]] \in cut
        BY <1>9, <4>1 DEF IndInv, TypeOK
      <4> QED BY <1>1, <3>1, <4>2 DEF IndInv, WrittenSoFar
    <3> QED BY <3>2, <3>3
  <2> QED BY <2>1, <2>2
<1>11. WholeUnlessRacedOrCut'
  <2> SUFFICES ASSUME NEW v \in Urls, v \notin raced, file[v] # None, file[v] \notin cut'
               PROVE  body'[file[v]] = Whole
    BY <1>1 DEF WholeUnlessRacedOrCut, Whole
  <2>1. file[v] # i /\ file[v] \in Inodes
    BY <1>2 DEF IndInv, TypeOK, HandlesApart
  <2> QED BY <1>9, <2>1 DEF IndInv, WholeUnlessRacedOrCut
<1> QED BY <1>4, <1>5, <1>6, <1>8, <1>10, <1>11 DEF IndInv

LEMMA WriteFailsKeeps ==
  ASSUME IndInv, NEW t \in Tasks, WriteFails(t)
  PROVE  IndInv'
<1>1. /\ handle' = [handle EXCEPT ![t] = None] /\ written' = [written EXCEPT ![t] = 0]
      /\ pc' = [pc EXCEPT ![t] = "idle"] /\ locks' = locks \ {url[t]}
      /\ UNCHANGED <<file, tmp, meta, body, url, pruning, starts, raced, cut>>
  BY DEF WriteFails, Leave, Goto, disk
<1>2. TypeOK'
  BY <1>1, CacheAssumption DEF IndInv, TypeOK, pruning
<1>3. NamesApart' /\ WholeUnlessRacedOrCut'
  BY <1>1 DEF IndInv, NamesApart, WholeUnlessRacedOrCut
<1>4. HandlesApart' /\ OneWriter'
  BY <1>1 DEF IndInv, TypeOK, HandlesApart, OneWriter, Writers
<1>5. WrittenSoFar'
  BY <1>1 DEF IndInv, TypeOK, WrittenSoFar, Whole
<1> QED BY <1>2, <1>3, <1>4, <1>5 DEF IndInv

LEMMA RenameKeeps ==
  ASSUME IndInv, NEW t \in Tasks, Rename(t)
  PROVE  IndInv'
<1> DEFINE u == url[t]
           i == tmp[u]
<1>1. /\ pc[t] = "renaming" /\ handle[t] = None /\ u \in Urls
      /\ UNCHANGED <<meta, body, url, handle, written, pruning, starts, raced, cut>>
  BY DEF Rename, IndInv, TypeOK
<1>2. CASE i = None
  <2>1. /\ pc' = [pc EXCEPT ![t] = "idle"] /\ locks' = locks \ {u}
        /\ UNCHANGED <<file, tmp>>
    BY <1>2 DEF Rename, Leave, Goto
  <2> QED BY <1>1, <2>1 DEF IndInv, TypeOK, NamesApart, HandlesApart, OneWriter, Writers,
             WrittenSoFar, WholeUnlessRacedOrCut, Whole, pruning
<1>3. CASE i # None
  <2>1. /\ pc' = [pc EXCEPT ![t] = "typing"] /\ UNCHANGED locks
        /\ file' = [file EXCEPT ![u] = i] /\ tmp' = [tmp EXCEPT ![u] = None]
    BY <1>3 DEF Rename, Goto
  <2>2. TypeOK'
    BY <1>1, <2>1 DEF IndInv, TypeOK, pruning
  <2>3. NamesApart'
    BY <1>1, <1>3, <2>1 DEF IndInv, TypeOK, NamesApart
  <2>4. \A s \in Tasks : handle[s] = i => url[s] = u /\ u \in raced
    <3> SUFFICES ASSUME NEW s \in Tasks, handle[s] = i
                 PROVE  url[s] = u /\ u \in raced
      OBVIOUS
    <3>1. url[s] = u /\ pc[s] = "writing" /\ s # t
      BY <1>1, <1>3 DEF IndInv, TypeOK, HandlesApart
    <3> QED BY <1>1, <3>1 DEF IndInv, OneWriter, Writers
  <2>5. HandlesApart'
    BY <1>1, <1>3, <2>1, <2>4 DEF IndInv, TypeOK, HandlesApart
  <2>6. OneWriter'
    BY <1>1, <2>1 DEF IndInv, TypeOK, OneWriter, Writers
  <2>7. WrittenSoFar'
    BY <1>1, <2>1 DEF IndInv, TypeOK, WrittenSoFar, Whole
  <2>8. WholeUnlessRacedOrCut'
    BY <1>1, <1>3, <2>1 DEF IndInv, TypeOK, WrittenSoFar, WholeUnlessRacedOrCut, Whole
  <2> QED BY <2>2, <2>3, <2>5, <2>6, <2>7, <2>8 DEF IndInv
<1> QED BY <1>2, <1>3

\* A name that goes away is reached by nobody any more.
LEMMA RemoveKeeps ==
  ASSUME IndInv, NEW e \in Entries, Remove(e),
         entries' \subseteq Entries, pruner' \in {"off", "listing", "evicting"},
         UNCHANGED <<locks, pc, url, handle, written, starts, raced, cut>>
  PROVE  IndInv'
<1>1. /\ file' \in [Urls -> Inodes \union {None}] /\ tmp' \in [Urls -> Inodes \union {None}]
      /\ meta' \subseteq Urls /\ UNCHANGED body
      /\ \A v \in Urls : file'[v] \in {None, file[v]} /\ tmp'[v] \in {None, tmp[v]}
  BY DEF Remove, Entries, IndInv, TypeOK
<1>2. TypeOK'
  BY <1>1 DEF IndInv, TypeOK
<1>3. NamesApart' /\ WholeUnlessRacedOrCut'
  BY <1>1 DEF IndInv, NamesApart, WholeUnlessRacedOrCut
<1>4. HandlesApart' /\ OneWriter'
  BY <1>1 DEF IndInv, HandlesApart, OneWriter, Writers
<1>5. WrittenSoFar'
  BY <1>1 DEF IndInv, TypeOK, WrittenSoFar, Whole
<1> QED BY <1>2, <1>3, <1>4, <1>5 DEF IndInv

\* The pruner keeps what it keeps; removing is RemoveKeeps.
LEMMA PruneKeeps ==
  ASSUME IndInv, Prune
  PROVE  IndInv'
<1>1. /\ entries' \subseteq Entries /\ pruner' \in {"off", "listing", "evicting"}
      /\ UNCHANGED <<locks, pc, url, handle, written, starts, raced, cut>>
  BY DEF Prune, List, Evict, EndList, EndEvict, IndInv, TypeOK
<1>2. CASE UNCHANGED disk
  BY <1>1, <1>2 DEF disk, IndInv, TypeOK, NamesApart, HandlesApart, OneWriter, Writers,
     WrittenSoFar, WholeUnlessRacedOrCut, Whole
<1>3. UNCHANGED disk \/ \E e \in Entries : Remove(e)
  BY DEF Prune, List, Evict, EndList, EndEvict
<1> QED BY <1>1, <1>2, <1>3, RemoveKeeps

LEMMA RestartKeeps ==
  ASSUME IndInv, Restart
  PROVE  IndInv'
  BY CacheAssumption DEF Restart, IndInv, TypeOK, NamesApart, HandlesApart, OneWriter, Writers,
     WrittenSoFar, WholeUnlessRacedOrCut, Whole, disk, Entries

LEMMA StepKeeps ==
  ASSUME IndInv, [Next]_vars
  PROVE  IndInv'
<1>1. ASSUME NEW t \in Tasks, NEW u \in Urls, Lookup(t, u)
      PROVE  IndInv'
  BY <1>1, QuietStepKeeps DEF Lookup, Goto, disk, IndInv, TypeOK
<1>2. ASSUME NEW t \in Tasks, Mark(t) \/ Recheck(t) \/ Download(t) \/ WriteMeta(t)
      PROVE  IndInv'
  <2>1. /\ UNCHANGED <<file, tmp, body, url, handle, written, pruning, starts, raced, cut>>
        /\ meta' \subseteq Urls /\ pc[t] \notin {"writing", "renaming"}
    BY <1>2 DEF Mark, Recheck, Download, WriteMeta, disk, IndInv, TypeOK
  <2>2. /\ locks' \in {locks, locks \union {url[t]}, locks \ {url[t]}}
        /\ \E place \in {"idle", "marking", "rechecking", "downloading", "creating"} :
             pc' = [pc EXCEPT ![t] = place]
    BY <1>2 DEF Mark, Recheck, Download, WriteMeta, Leave, Goto
  <2> QED BY <2>1, <2>2, QuietStepKeeps
<1>3. ASSUME NEW t \in Tasks, Create(t) \/ Write(t) \/ WriteFails(t) \/ Rename(t)
      PROVE  IndInv'
  BY <1>3, CreateKeeps, WriteKeeps, WriteFailsKeeps, RenameKeeps
<1>4. CASE Prune
  BY <1>4, PruneKeeps
<1>5. CASE Restart
  BY <1>5, RestartKeeps
<1>6. CASE UNCHANGED vars
  BY <1>6 DEF vars, disk, pruning, IndInv, TypeOK, NamesApart, HandlesApart, OneWriter, Writers,
     WrittenSoFar, WholeUnlessRacedOrCut, Whole
<1> QED BY <1>1, <1>2, <1>3, <1>4, <1>5, <1>6 DEF Next, Fetch

LEMMA IndInvHolds == Spec => []IndInv
<1>1. IndInv /\ [Next]_vars => IndInv'
  BY StepKeeps
<1> QED BY InitEstablishes, <1>1, PTL DEF Spec

\* The types of the cache hold in every reachable state, and a task holds a handle
\* exactly while it writes (media_cache.rs 206-237).
THEOREM TypeCorrect == Spec => []TypeOK
<1>1. IndInv => TypeOK
  BY DEF IndInv
<1> QED BY IndInvHolds, <1>1, PTL

\* Whatever the moments at which the program dies, the disk is full, or the pruner
\* removes a name, an entry of a URL that no two tasks wrote at once is whole, but for
\* a last chunk whose failure sync_all kept to itself (media_cache.rs 202-226).
THEOREM EntriesAreWholeUnlessRacedOrCut == Spec => []WholeUnlessRacedOrCut
<1>1. IndInv => WholeUnlessRacedOrCut
  BY DEF IndInv
<1> QED BY IndInvHolds, <1>1, PTL

-----------------------------------------------------------------------------
\* A mark that is set names the URL of a task inside its fetch: whoever leaves
\* removes the mark, also when it is another's.
LEMMA MarksStayLive ==
  ASSUME TypeOK, MarksAreLive, [Next]_vars
  PROVE  MarksAreLive'
<1> DEFINE InFetch(t) == pc[t] \notin {"idle", "marking"}
<1>1. ASSUME NEW t \in Tasks, Leave(t), url' = url
      PROVE  MarksAreLive'
  BY <1>1 DEF Leave, Goto, MarksAreLive, TypeOK
<1>2. ASSUME NEW t \in Tasks, locks' = locks, url' = url,
             \E place : place \notin {"idle", "marking"} /\ pc' = [pc EXCEPT ![t] = place]
      PROVE  MarksAreLive'
  BY <1>2 DEF MarksAreLive, TypeOK
<1>3. ASSUME NEW t \in Tasks, NEW u \in Urls, Lookup(t, u)
      PROVE  MarksAreLive'
  BY <1>3 DEF Lookup, Goto, MarksAreLive, TypeOK
<1>4. ASSUME NEW t \in Tasks, Mark(t)
      PROVE  MarksAreLive'
  BY <1>4 DEF Mark, Goto, MarksAreLive, TypeOK
<1>5. ASSUME NEW t \in Tasks, Recheck(t) \/ Download(t)
      PROVE  MarksAreLive'
  BY <1>1, <1>2, <1>5 DEF Recheck, Download, Goto
<1>6. ASSUME NEW t \in Tasks, Create(t)
      PROVE  MarksAreLive'
  BY <1>2, <1>6 DEF Create, Goto
<1>7. ASSUME NEW t \in Tasks, Write(t)
      PROVE  MarksAreLive'
  BY <1>7 DEF Write, Goto, MarksAreLive, TypeOK
<1>8. ASSUME NEW t \in Tasks, WriteFails(t) \/ WriteMeta(t)
      PROVE  MarksAreLive'
  BY <1>1, <1>8 DEF WriteFails, WriteMeta
<1>9. ASSUME NEW t \in Tasks, Rename(t)
      PROVE  MarksAreLive'
  BY <1>1, <1>2, <1>9 DEF Rename, Goto
<1>10. CASE Prune
  BY <1>10 DEF Prune, EndList, EndEvict, List, Evict, MarksAreLive
<1>11. CASE Restart
  BY <1>11 DEF Restart, MarksAreLive
<1>12. CASE UNCHANGED vars
  BY <1>12 DEF vars, MarksAreLive
<1> QED BY <1>3, <1>4, <1>5, <1>6, <1>7, <1>8, <1>9, <1>10, <1>11, <1>12 DEF Next, Fetch

\* The set of marks names only URLs whose fetch is in progress, on every way out of
\* a fetch and after every restart, so that it stays bounded (media_cache.rs 122-128).
THEOREM MarksNameFetches == Spec => []MarksAreLive
<1>1. Init => MarksAreLive
  BY DEF Init, MarksAreLive
<1>2. TypeOK /\ MarksAreLive /\ [Next]_vars => MarksAreLive'
  BY MarksStayLive
<1> QED BY TypeCorrect, <1>1, <1>2, PTL DEF Spec
=============================================================================
