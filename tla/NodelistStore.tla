---------------------------- MODULE NodelistStore ----------------------------
(***************************************************************************)
(* The nodelist in memory (scheduler.Start, nodelist.Load and FindLatest): *)
(* which file of the directory is taken, its cache, the merging of the     *)
(* lists, and those who look nodes up meanwhile: the scheduler of before a *)
(* reload, which may still be in a call, and the HTTP API.                 *)
(***************************************************************************)
EXTENDS Naturals, Sequences

CONSTANTS
  Base,         \* names of nodelists
  Ext,          \* the days of the year that they are published on, their extension
  Day,          \* Day[b][n]: the day of the n-th nodelist of b
  Reader,       \* goroutines that look nodes up
  Overlap,      \* whether those of before a reload go on after it
  ReplaceAny,   \* whether nodelists arrive and are corrected while momail reads them
  MaxTime,      \* bound: ticks of the clock of the file system
  MaxTexts,     \* bound: texts of nodelists, all in all
  MaxStarts,    \* bound: starts and reloads
  None

ASSUME DayAssumption == Ext \subseteq Nat /\ \A b \in Base : \A n \in DOMAIN Day[b] : Day[b][n] \in Ext
ASSUME BoundAssumption == MaxTime \in Nat /\ MaxTexts \in Nat /\ MaxStarts \in Nat
ASSUME ChoiceAssumption == Overlap \in BOOLEAN /\ ReplaceAny \in BOOLEAN

File == Base \X Ext

VARIABLES
  dir,      \* dir[f]: what is in the file, see Content; None if there is no file
  cache,    \* cache[f]: the same of its cache; text 0 is one that cannot be decoded
  issued,   \* issued[b]: nodelists published so far
  texts,    \* texts of nodelists so far
  time,     \* the clock of the file system
  pc,       \* where Start is
  todo,     \* the bases still to be loaded
  file,     \* the file being loaded
  text,     \* what Load has of it
  list,     \* globalNodelist: the text for each base
  map,      \* the number of its map in this process
  reads,    \* reads[r]: the map that r is looking at; 0 if none
  starts    \* starts and reloads so far

disk == <<dir, cache, issued, texts, time>>
vars == <<disk, pc, todo, file, text, list, map, reads, starts>>

Texts == 1 .. texts

\* A text of a nodelist, which one of its base it is, and when the file was written.
Content(ts) == [text : ts, issue : Nat, time : 0 .. MaxTime]

TypeOK ==
  /\ dir \in [File -> Content(Texts) \cup {None}]
  /\ cache \in [File -> Content(Texts \cup {0}) \cup {None}]
  /\ \A b \in Base : issued[b] \in 0 .. Len(Day[b])
  /\ time \in 0 .. MaxTime /\ texts \in Nat /\ starts \in 0 .. MaxStarts
  /\ pc \in {"down", "find", "open", "parse", "create", "encode", "merge", "up"}
  /\ todo \subseteq Base /\ (pc = "up" => todo = {})
  /\ file \in File \cup {None} /\ text \in Texts \cup {0} /\ (pc = "merge" => text # 0)
  /\ list \in [Base -> Texts \cup {0}]
  /\ map \in 0 .. starts /\ reads \in [Reader -> 0 .. map]

NoList == [b \in Base |-> 0]
NoReads == [r \in Reader |-> 0]

Init ==
  /\ dir = [f \in File |-> None] /\ cache = dir
  /\ issued = NoList /\ texts = 0 /\ time = 0
  /\ pc = "down" /\ todo = {} /\ file = None /\ text = 0
  /\ list = NoList /\ map = 0 /\ reads = NoReads /\ starts = 0

-----------------------------------------------------------------------------
(* The directory: nodelists come once a week, may be corrected, and are     *)
(* removed.                                                                 *)

Quiet == pc \in {"down", "up"} \/ ReplaceAny

Put(f, issue) ==
  /\ Quiet /\ texts' = texts + 1
  /\ dir' = [dir EXCEPT ![f] = [text |-> texts + 1, issue |-> issue, time |-> time]]
  /\ UNCHANGED <<cache, time, pc, todo, file, text, list, map, reads, starts>>

Issue(b) ==
  /\ issued[b] < Len(Day[b]) /\ texts < MaxTexts
  /\ issued' = [issued EXCEPT ![b] = @ + 1]
  /\ Put(<<b, Day[b][issued[b] + 1]>>, issued[b] + 1)

Correct(f) ==
  /\ dir[f] # None /\ texts < MaxTexts
  /\ Put(f, dir[f].issue)
  /\ UNCHANGED issued

Remove(f) ==
  /\ Quiet /\ dir[f] # None /\ dir' = [dir EXCEPT ![f] = None]
  /\ UNCHANGED <<cache, issued, texts, time, pc, todo, file, text, list, map, reads, starts>>

Tick ==
  /\ time < MaxTime /\ time' = time + 1
  /\ UNCHANGED <<dir, cache, issued, texts, pc, todo, file, text, list, map, reads, starts>>

-----------------------------------------------------------------------------
(* Start, by main's goroutine.                                              *)

\* A new map is made, and then filled.  The goroutines of before have gone, or go on.
Start ==
  /\ pc \in {"down", "up"} /\ pc' = "find" /\ todo' = Base
  /\ starts < MaxStarts /\ starts' = starts + 1
  /\ list' = NoList /\ map' = map + 1
  /\ reads' = IF Overlap THEN reads ELSE NoReads
  /\ UNCHANGED <<disk, file, text>>

\* The bases that are left, when b is done.
Proceed(b) == todo' = todo \ {b} /\ pc' = IF todo = {b} THEN "up" ELSE "find"

FilesOf(b) == {f \in File : f[1] = b /\ dir[f] # None}

\* The file with the highest extension.
FindLatest(b) == CHOOSE f \in FilesOf(b) : \A g \in FilesOf(b) : f[2] >= g[2]

Find(b) ==
  /\ pc = "find" /\ b \in todo
  /\ IF FilesOf(b) = {} THEN Proceed(b) /\ UNCHANGED file
     ELSE file' = FindLatest(b) /\ pc' = "open" /\ UNCHANGED todo
  /\ UNCHANGED <<disk, text, list, map, reads, starts>>

\* Mutant of Cached: the cache may be as old as the file.
CachedNotOlder(f) ==
  dir[f] # None /\ cache[f] # None /\ cache[f].time >= dir[f].time /\ cache[f].text # 0

\* The cache is newer than the file, and can be decoded.
Cached(f) ==
  dir[f] # None /\ cache[f] # None /\ cache[f].time > dir[f].time /\ cache[f].text # 0

Open ==
  /\ pc = "open"
  /\ IF Cached(file) THEN text' = cache[file].text /\ pc' = "merge"
     ELSE pc' = "parse" /\ UNCHANGED text
  /\ UNCHANGED <<disk, todo, file, list, map, reads, starts>>

\* The file may have gone since FindLatest.
Parse ==
  /\ pc = "parse"
  /\ IF dir[file] = None THEN Proceed(file[1]) /\ UNCHANGED text
     ELSE text' = dir[file].text /\ pc' = "create" /\ UNCHANGED todo
  /\ UNCHANGED <<disk, file, list, map, reads, starts>>

WriteCache(t) == cache' = [cache EXCEPT ![file] = [text |-> t, issue |-> 0, time |-> time]]

Create ==
  /\ pc = "create" /\ pc' = "encode" /\ WriteCache(0)
  /\ UNCHANGED <<dir, issued, texts, time, todo, file, text, list, map, reads, starts>>

Encode ==
  /\ pc = "encode" /\ pc' = "merge" /\ WriteCache(text)
  /\ UNCHANGED <<dir, issued, texts, time, todo, file, text, list, map, reads, starts>>

\* The entries have been written into the map, one by one, since pc was "merge".
Merge ==
  /\ pc = "merge" /\ list' = [list EXCEPT ![file[1]] = text]
  /\ Proceed(file[1])
  /\ UNCHANGED <<disk, file, text, map, reads, starts>>

Crash ==
  /\ pc # "down" /\ pc' = "down" /\ todo' = {}
  /\ list' = NoList /\ map' = 0 /\ reads' = NoReads
  /\ file' = None /\ text' = 0
  /\ UNCHANGED <<disk, starts>>

-----------------------------------------------------------------------------
(* findLink and GetNode.                                                    *)

\* By a goroutine that Start has started, now or in the reload before.
Look(r) ==
  /\ pc = "up" \/ (Overlap /\ pc # "down" /\ map > 1)
  /\ reads[r] = 0 /\ reads' = [reads EXCEPT ![r] = map]
  /\ UNCHANGED <<disk, pc, todo, file, text, list, map, starts>>

Looked(r) ==
  /\ reads[r] # 0 /\ reads' = [reads EXCEPT ![r] = 0]
  /\ UNCHANGED <<disk, pc, todo, file, text, list, map, starts>>

Next ==
  \/ \E b \in Base : Issue(b) \/ Find(b)
  \/ \E f \in File : Correct(f) \/ Remove(f)
  \/ Tick \/ Start \/ Open \/ Parse \/ Create \/ Encode \/ Merge \/ Crash
  \/ \E r \in Reader : Look(r) \/ Looked(r)

Spec == Init /\ [][Next]_vars

-----------------------------------------------------------------------------
(* Properties.                                                              *)

\* A cache that is used has been made of the file, whatever the clock of the file system cannot
\* tell apart and wherever momail was killed before ("Try to load from cache if it exists and is
\* newer than the source", nodelist.go:44).
CacheCurrent == [][pc = "open" /\ pc' = "merge" => text' = dir[file].text]_vars

\* The nodelist that is loaded is the last one that is there ("Found latest nodelist",
\* scheduler.go:72).
LatestFound ==
  [][pc = "find" /\ pc' = "open" => \A f \in FilesOf(file'[1]) : dir[f].issue <= dir[file'].issue]_vars

\* Nobody looks into a map that is written: Go ends a program that does ("MoMail supports
\* reloading its configuration without restarting the daemon", README.md:146).
NoMapRace == pc = "merge" => \A r \in Reader : reads[r] # map
=============================================================================
