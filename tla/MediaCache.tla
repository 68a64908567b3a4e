----------------------------- MODULE MediaCache -----------------------------
(***************************************************************************)
(* The on-disk cache of remote media (src-tauri/src/media_cache.rs):       *)
(* concurrent command handlers look a URL up, download it on a miss, and   *)
(* publish it by renaming a temporary file; at start a thread prunes the   *)
(* directory; the program may die at any step and start again.             *)
(*                                                                         *)
(* The disk is modelled by what two tasks can see of it: a name stands for *)
(* an inode, a task writes through a handle to an inode, and creating a    *)
(* name that exists truncates its inode.  A body is written in Chunks, in  *)
(* order, and a file is whole when it has them all.                        *)
(***************************************************************************)
EXTENDS Naturals, FiniteSets

CONSTANTS
    Urls,
    Tasks,       \* command handlers running at one time
    Inodes,      \* enough for every name and handle in use at once
    Chunks,      \* writes that make up a body
    MaxStarts,   \* bound: times the program is started
    None

ASSUME CacheAssumption == /\ {Chunks, MaxStarts} \subseteq Nat \ {0}
                          /\ None \notin Inodes

VARIABLES
    file,        \* <md5>.<ext> of each URL, an inode or None
    tmp,         \* <md5>.tmp of each URL, an inode or None
    meta,        \* URLs with a <md5>.<ext>.meta file
    body,        \* the chunks each inode holds
    locks,       \* FETCH_LOCKS
    pc, url,     \* where each task is, and for which URL
    handle,      \* the inode a task writes to
    written,     \* chunks it has written
    pruner,      \* prune_blocking: "off", "listing", "evicting"
    entries,     \* directory entries the pruner has yet to look at or to evict
    starts,      \* times the program was started
    raced,       \* history: URLs two tasks wrote at once
    cut          \* history: inodes whose last chunk was not written, unseen

disk == <<file, tmp, meta, body>>
pruning == <<pruner, entries>>
vars == <<disk, locks, pc, url, handle, written, pruning, starts, raced,
          cut>>

Whole == 1..Chunks
Entries == {"file", "tmp", "meta"} \X Urls

Present(e) == CASE e[1] = "file" -> file[e[2]] # None
                [] e[1] = "tmp" -> tmp[e[2]] # None
                [] e[1] = "meta" -> e[2] \in meta

Init ==
    /\ file = [u \in Urls |-> None]
    /\ tmp = [u \in Urls |-> None]
    /\ meta = {}
    /\ body = [i \in Inodes |-> {}]
    /\ locks = {}
    /\ pc = [t \in Tasks |-> "idle"]
    /\ url \in [Tasks -> Urls]
    /\ handle = [t \in Tasks |-> None]
    /\ written = [t \in Tasks |-> 0]
    /\ pruner = "listing" /\ entries = {}
    /\ starts = 1
    /\ raced = {} /\ cut = {}

-----------------------------------------------------------------------------
(* get, then fetch.                                                        *)

\* An entry is there when its file is and is not empty.
Cached(u) == file[u] # None /\ body[file[u]] # {}

Goto(t, place) == pc' = [pc EXCEPT ![t] = place]

\* A plausible bug: the mark is removed on success only.
BadLeave(t) == Goto(t, "idle") /\ locks' = (IF pc[t] = "typing" THEN locks \ {url[t]} ELSE locks)

\* Any way out of fetch drops the guard, which removes the mark of the URL.
Leave(t) == Goto(t, "idle") /\ locks' = locks \ {url[t]}

\* A webview asks for a picture: a hit is handed out, a miss is fetched.
Lookup(t, u) ==
    /\ pc[t] = "idle"
    /\ ~Cached(u)
    /\ url' = [url EXCEPT ![t] = u]
    /\ Goto(t, "marking")
    /\ UNCHANGED <<disk, locks, handle, written, pruning, starts, raced, cut>>

\* The mark is inserted whether or not it is there; nobody waits on it.
Mark(t) ==
    /\ pc[t] = "marking"
    /\ locks' = locks \union {url[t]}
    /\ Goto(t, "rechecking")
    /\ UNCHANGED <<disk, url, handle, written, pruning, starts, raced, cut>>

Recheck(t) ==
    /\ pc[t] = "rechecking"
    /\ IF Cached(url[t]) THEN Leave(t) ELSE Goto(t, "downloading") /\ UNCHANGED locks
    /\ UNCHANGED <<disk, url, handle, written, pruning, starts, raced, cut>>

\* The whole body is received in memory, or the request fails.
Download(t) ==
    /\ pc[t] = "downloading"
    /\ Leave(t) \/ (Goto(t, "creating") /\ UNCHANGED locks)
    /\ UNCHANGED <<disk, url, handle, written, pruning, starts, raced, cut>>

Unlinked == {i \in Inodes : /\ \A u \in Urls : i \notin {file[u], tmp[u]}
                             /\ \A t \in Tasks : i # handle[t]}

\* The inodes creating a name may give: a new one, or the one it names.
Opened(inode) == IF inode = None THEN Unlinked ELSE {inode}

\* Tasks between their File::create and their rename.
Writers(u) == {t \in Tasks : url[t] = u /\ pc[t] \in {"writing", "renaming"}}

\* A plausible bug: the body is written straight into the entry.
BadCreate(t) == LET u == url[t] IN \E i \in Opened(file[u]) :
    /\ pc[t] = "creating"
    /\ file' = [file EXCEPT ![u] = i]
    /\ body' = [body EXCEPT ![i] = {}]
    /\ handle' = [handle EXCEPT ![t] = i]
    /\ written' = [written EXCEPT ![t] = 0]
    /\ raced' = (IF Writers(u) = {} THEN raced ELSE raced \union {u})
    /\ cut' = cut \ {i}
    /\ Goto(t, "writing")
    /\ UNCHANGED <<tmp, meta, locks, url, pruning, starts>>

\* File::create: a new inode under the name, or the present one truncated.
Create(t) == LET u == url[t] IN \E i \in Opened(tmp[u]) :
    /\ pc[t] = "creating"
    /\ tmp' = [tmp EXCEPT ![u] = i]
    /\ body' = [body EXCEPT ![i] = {}]
    /\ handle' = [handle EXCEPT ![t] = i]
    /\ written' = [written EXCEPT ![t] = 0]
    /\ raced' = (IF Writers(u) = {} THEN raced ELSE raced \union {u})
    /\ cut' = cut \ {i}
    /\ Goto(t, "writing")
    /\ UNCHANGED <<file, meta, locks, url, pruning, starts>>

\* A plausible bug: the file is still open when it is renamed.
BadWrite(t) ==
    /\ pc[t] = "writing"
    /\ body' = [body EXCEPT ![handle[t]] = @ \union {written[t] + 1}]
    /\ IF written[t] + 1 = Chunks
       THEN /\ Goto(t, "renaming")
            /\ written' = [written EXCEPT ![t] = 0]
            /\ UNCHANGED handle
       ELSE written' = [written EXCEPT ![t] = @ + 1] /\ UNCHANGED <<pc, handle>>
    /\ UNCHANGED <<file, tmp, meta, locks, url, pruning, starts, raced, cut>>

\* write_all, a chunk at a time at the task's own offset; the last one is synced
\* and the handle closed.  A chunk is handed to a blocking thread, and its error
\* is seen by the write of the next: that of the last one by sync_all only, whose
\* result is dropped, and the fetch goes on.
Write(t) ==
    /\ pc[t] = "writing"
    /\ \/ /\ body' = [body EXCEPT ![handle[t]] = @ \union {written[t] + 1}]
          /\ UNCHANGED cut
       \/ /\ written[t] + 1 = Chunks
          /\ cut' = cut \union {handle[t]}
          /\ UNCHANGED body
    /\ IF written[t] + 1 = Chunks
       THEN /\ Goto(t, "renaming")
            /\ handle' = [handle EXCEPT ![t] = None]
            /\ written' = [written EXCEPT ![t] = 0]
       ELSE written' = [written EXCEPT ![t] = @ + 1] /\ UNCHANGED <<pc, handle>>
    /\ UNCHANGED <<file, tmp, meta, locks, url, pruning, starts, raced>>

\* create fails, or a write that is not the last (a full disk): what was written
\* stays behind.
WriteFails(t) ==
    /\ pc[t] = "creating" \/ (pc[t] = "writing" /\ written[t] + 1 < Chunks)
    /\ handle' = [handle EXCEPT ![t] = None]
    /\ written' = [written EXCEPT ![t] = 0]
    /\ Leave(t)
    /\ UNCHANGED <<disk, url, pruning, starts, raced, cut>>

\* rename replaces the entry by whatever the temporary name holds; when another
\* task has renamed it or the pruner removed it, the fetch fails.
Rename(t) == LET u == url[t] IN
    /\ pc[t] = "renaming"
    /\ IF tmp[u] = None
       THEN Leave(t) /\ UNCHANGED <<file, tmp>>
       ELSE /\ file' = [file EXCEPT ![u] = tmp[u]]
            /\ tmp' = [tmp EXCEPT ![u] = None]
            /\ Goto(t, "typing")
            /\ UNCHANGED locks
    /\ UNCHANGED <<meta, body, url, handle, written, pruning, starts, raced, cut>>

\* The content type, best-effort.
WriteMeta(t) ==
    /\ pc[t] = "typing"
    /\ meta' \in {meta, meta \union {url[t]}}
    /\ Leave(t)
    /\ UNCHANGED <<file, tmp, body, url, handle, written, pruning, starts, raced, cut>>

-----------------------------------------------------------------------------
(* prune_blocking: list and stat, evict by age, then by size.              *)

Remove(e) ==
    /\ file' = IF e[1] = "file" THEN [file EXCEPT ![e[2]] = None] ELSE file
    /\ tmp' = IF e[1] = "tmp" THEN [tmp EXCEPT ![e[2]] = None] ELSE tmp
    /\ meta' = IF e[1] = "meta" THEN meta \ {e[2]} ELSE meta
    /\ UNCHANGED body

\* One entry of the directory: removed for its age, or kept for the size pass.
List(e) ==
    /\ pruner = "listing"
    /\ Present(e)
    /\ \/ Remove(e) /\ UNCHANGED entries
       \/ e \notin entries /\ entries' = entries \union {e} /\ UNCHANGED disk
    /\ UNCHANGED <<pruner, locks, pc, url, handle, written, starts, raced, cut>>

\* The listing ends, or an entry that vanished under it ends the whole prune.
EndList ==
    /\ pruner = "listing"
    /\ \/ pruner' = "evicting" /\ UNCHANGED entries
       \/ pruner' = "off" /\ entries' = {}
    /\ UNCHANGED <<disk, locks, pc, url, handle, written, starts, raced, cut>>

\* Over the cap the oldest entry goes, whatever it is by now.
Evict(e) ==
    /\ pruner = "evicting"
    /\ e \in entries
    /\ Remove(e)
    /\ entries' = entries \ {e}
    /\ UNCHANGED <<pruner, locks, pc, url, handle, written, starts, raced, cut>>

EndEvict ==
    /\ pruner = "evicting"
    /\ pruner' = "off"
    /\ entries' = {}
    /\ UNCHANGED <<disk, locks, pc, url, handle, written, starts, raced, cut>>

\* The program dies, keeping the disk, and starts again with a pruner.
Restart ==
    /\ starts < MaxStarts
    /\ starts' = starts + 1
    /\ locks' = {}
    /\ pc' = [t \in Tasks |-> "idle"]
    /\ handle' = [t \in Tasks |-> None]
    /\ written' = [t \in Tasks |-> 0]
    /\ pruner' = "listing" /\ entries' = {}
    /\ UNCHANGED <<disk, url, raced, cut>>

-----------------------------------------------------------------------------
Fetch(t) ==
    \/ Mark(t) \/ Recheck(t) \/ Download(t) \/ Create(t)
    \/ Write(t) \/ WriteFails(t) \/ Rename(t) \/ WriteMeta(t)

Prune == EndList \/ EndEvict \/ \E e \in Entries : List(e) \/ Evict(e)

Next ==
    \/ \E t \in Tasks : Fetch(t) \/ \E u \in Urls : Lookup(t, u)
    \/ Prune
    \/ Restart

Spec == Init /\ [][Next]_vars

-----------------------------------------------------------------------------
(* Properties.                                                             *)

\* Types, and a task holds a handle exactly while it writes.
TypeOK ==
    /\ file \in [Urls -> Inodes \union {None}]
    /\ tmp \in [Urls -> Inodes \union {None}]
    /\ meta \subseteq Urls
    /\ body \in [Inodes -> SUBSET Whole]
    /\ locks \subseteq Urls
    /\ pc \in [Tasks -> {"idle", "marking", "rechecking", "downloading",
                         "creating", "writing", "renaming", "typing"}]
    /\ url \in [Tasks -> Urls]
    /\ handle \in [Tasks -> Inodes \union {None}]
    /\ \A t \in Tasks : handle[t] = None <=> pc[t] # "writing"
    /\ written \in [Tasks -> 0..Chunks]
    /\ pruner \in {"off", "listing", "evicting"}
    /\ entries \subseteq Entries
    /\ starts \in 1..MaxStarts
    /\ raced \subseteq Urls /\ cut \subseteq Inodes

\* Whatever the moment the program dies or the pruner strikes, an entry that no
\* two tasks wrote at once is whole, except for a last chunk whose failure
\* sync_all kept to itself (media_cache.rs, 202-226).
WholeUnlessRacedOrCut ==
    \A u \in Urls \ raced :
        file[u] # None /\ file[u] \notin cut => body[file[u]] = Whole

\* The map of marks stays bounded: it names only URLs whose fetch is in
\* progress, on every way out of a fetch (media_cache.rs, 122-128).
MarksAreLive ==
    \A u \in locks : \E t \in Tasks : url[t] = u /\ pc[t] \notin {"idle", "marking"}

\* What the comment of fetch says, media_cache.rs 202-203: "a partial write
\* never replaces a good cache entry".  A run shows what does.
GoodEntriesStay ==
    [][\A u \in Urls : file[u] # None /\ body[file[u]] = Whole =>
                          file'[u] = None \/ body'[file'[u]] = Whole]_vars

-----------------------------------------------------------------------------
(* Sentences of the code's docs and comments that this model refutes.  No    *)
(* run checks them; README.md says what the code does instead.              *)

\* What the docs say of concurrent calls for one URL, media_cache.rs 27-28 and
\* 147-148: they "don't both download it", "only one download happens".
OneDownload ==
    \A t, s \in Tasks :
        t # s /\ url[t] = url[s] => {pc[t], pc[s]} # {"downloading"}
=============================================================================
