--------------------------- MODULE MigrationProofs ---------------------------
(***************************************************************************)
(* For any processes, commands and faults: every variable of Migration     *)
(* keeps its type, no file of the old target is deleted, and a runner      *)
(* works on the user's files in today's shape.                             *)
(***************************************************************************)
EXTENDS MigrationProperties, TLAPS

Stages ==
  {"idle", "resolve", "relocate", "point", "enter", "migrate", "hop", "edit", "rewrite", "reshape",
   "mark", "open", "load", "write"}
Process == [pc : Stages, cmd : Commands \cup {"none"}, tries : 0 .. 2, todo : SUBSET Items,
            at : 0 .. Engine, file : Items \cup {"none"}]

\* Between a hop and its marker there is a hop: the marker never passes the engine.
HopsEnd ==
  \A p \in Procs : /\ proc[p].pc = "mark" => proc[p].at < Engine
                   /\ proc[p].pc = "reshape" => proc[p].at = 2
                   /\ proc[p].pc \in {"edit", "rewrite"} => proc[p].at = 0

TypeInv == TypeOK /\ HopsEnd

\* A file that is still in the old directory is on the list of everyone who is about to
\* remove the directory.
Listed ==
  \A p \in Procs : proc[p].pc = "relocate" => {f \in Items : place[f] = "legacy"} \subseteq proc[p].todo

KeptInv == OldKept /\ Listed

----------------------------------------------------------------------------
(* One process moves on *)

\* Changing one field of a process keeps its type and its other fields.
LEMMA PcUpdate ==
  ASSUME NEW r \in Process, NEW x \in Stages
  PROVE  /\ [r EXCEPT !.pc = x] \in Process
         /\ [r EXCEPT !.pc = x].pc = x
         /\ [r EXCEPT !.pc = x].cmd = r.cmd
         /\ [r EXCEPT !.pc = x].tries = r.tries
         /\ [r EXCEPT !.pc = x].todo = r.todo
         /\ [r EXCEPT !.pc = x].at = r.at
         /\ [r EXCEPT !.pc = x].file = r.file
BY DEF Process

\* A process with another command is a process, alike in the rest.
LEMMA CmdUpdate ==
  ASSUME NEW r \in Process, NEW x \in Commands \cup {"none"}
  PROVE  /\ [r EXCEPT !.cmd = x] \in Process
         /\ [r EXCEPT !.cmd = x].cmd = x
         /\ [r EXCEPT !.cmd = x].pc = r.pc
         /\ [r EXCEPT !.cmd = x].tries = r.tries
         /\ [r EXCEPT !.cmd = x].todo = r.todo
         /\ [r EXCEPT !.cmd = x].at = r.at
         /\ [r EXCEPT !.cmd = x].file = r.file
BY DEF Process

\* The same, with another number of tries.
LEMMA TriesUpdate ==
  ASSUME NEW r \in Process, NEW x \in 0 .. 2
  PROVE  /\ [r EXCEPT !.tries = x] \in Process
         /\ [r EXCEPT !.tries = x].tries = x
         /\ [r EXCEPT !.tries = x].pc = r.pc
         /\ [r EXCEPT !.tries = x].cmd = r.cmd
         /\ [r EXCEPT !.tries = x].todo = r.todo
         /\ [r EXCEPT !.tries = x].at = r.at
         /\ [r EXCEPT !.tries = x].file = r.file
BY DEF Process

\* The same, with other files left to move.
LEMMA TodoUpdate ==
  ASSUME NEW r \in Process, NEW x \in SUBSET Items
  PROVE  /\ [r EXCEPT !.todo = x] \in Process
         /\ [r EXCEPT !.todo = x].todo = x
         /\ [r EXCEPT !.todo = x].pc = r.pc
         /\ [r EXCEPT !.todo = x].cmd = r.cmd
         /\ [r EXCEPT !.todo = x].tries = r.tries
         /\ [r EXCEPT !.todo = x].at = r.at
         /\ [r EXCEPT !.todo = x].file = r.file
BY DEF Process

\* The same, with another schema version.
LEMMA AtUpdate ==
  ASSUME NEW r \in Process, NEW x \in 0 .. Engine
  PROVE  /\ [r EXCEPT !.at = x] \in Process
         /\ [r EXCEPT !.at = x].at = x
         /\ [r EXCEPT !.at = x].pc = r.pc
         /\ [r EXCEPT !.at = x].cmd = r.cmd
         /\ [r EXCEPT !.at = x].tries = r.tries
         /\ [r EXCEPT !.at = x].todo = r.todo
         /\ [r EXCEPT !.at = x].file = r.file
BY DEF Process

\* The same, with another file in hand.
LEMMA FileUpdate ==
  ASSUME NEW r \in Process, NEW x \in Items \cup {"none"}
  PROVE  /\ [r EXCEPT !.file = x] \in Process
         /\ [r EXCEPT !.file = x].file = x
         /\ [r EXCEPT !.file = x].pc = r.pc
         /\ [r EXCEPT !.file = x].cmd = r.cmd
         /\ [r EXCEPT !.file = x].tries = r.tries
         /\ [r EXCEPT !.file = x].todo = r.todo
         /\ [r EXCEPT !.file = x].at = r.at
BY DEF Process

\* The names of the stages the lemmas below go to.
LEMMA StageNames ==
  {"idle", "resolve", "relocate", "point", "enter", "migrate", "hop", "edit", "rewrite", "reshape",
   "mark", "open", "load", "write"} \subseteq Stages
BY DEF Stages

\* A process that does nothing is a process.
LEMMA IdleIsProcess == Idle \in Process /\ Idle.pc = "idle"
BY DEF Idle, Process, Stages, Engine, Items, Commands

\* What a process is when its relocation is over.
LEMMA ResolvedType ==
  ASSUME NEW p \in Procs, proc \in [Procs -> Process]
  PROVE  Resolved(p) \in Process /\ Resolved(p).pc \in {"resolve", "enter"}
<1> DEFINE r == proc[p]
           c == IF r.pc # "resolve" /\ r.tries = 2 THEN "resolve" ELSE "enter"
           s == [r EXCEPT !.pc = c]
<1>1. r \in Process
  OBVIOUS
<1>2. c \in Stages /\ c \in {"resolve", "enter"}
  BY DEF Stages
<1>3. Resolved(p) = [s EXCEPT !.tries = 1]
  BY Zenon DEF Resolved
<1> HIDE DEF r, c
<1>4. s \in Process /\ s.pc = c
  BY <1>1, <1>2, PcUpdate
<1> HIDE DEF s
<1>5. 1 \in 0 .. 2
  OBVIOUS
<1>6. [s EXCEPT !.tries = 1] \in Process /\ [s EXCEPT !.tries = 1].pc = s.pc
  BY <1>4, <1>5, TriesUpdate
<1>7. QED
  BY <1>2, <1>3, <1>4, <1>6

\* A process between a hop and its marker is where it should be.
Sound(r) == /\ r.pc = "mark" => r.at < Engine
            /\ r.pc = "reshape" => r.at = 2
            /\ r.pc \in {"edit", "rewrite"} => r.at = 0
Within == {"mark", "reshape", "edit", "rewrite"}

\* Process p becomes r, which is sound.
LEMMA Turn ==
  ASSUME proc \in [Procs -> Process], HopsEnd, NEW p \in Procs, NEW r \in Process, Sound(r),
         proc' = [proc EXCEPT ![p] = r]
  PROVE  /\ proc' \in [Procs -> Process] /\ HopsEnd'
         /\ proc'[p] = r
         /\ \A q \in Procs : q # p => proc'[q] = proc[q]
BY DEF HopsEnd, Sound

\* A process goes to the stage pc, which is none of a hop.
LEMMA GoTurn ==
  ASSUME proc \in [Procs -> Process], HopsEnd, NEW p \in Procs, NEW pc \in Stages \ Within,
         proc' = [proc EXCEPT ![p].pc = pc]
  PROVE  /\ proc' \in [Procs -> Process] /\ HopsEnd'
         /\ proc'[p].pc = pc
         /\ \A q \in Procs : q # p => proc'[q] = proc[q]
<1> DEFINE r == [proc[p] EXCEPT !.pc = pc]
<1>1. r \in Process /\ r.pc = pc
  BY PcUpdate
<1>2. proc' = [proc EXCEPT ![p] = r]
  OBVIOUS
<1> HIDE DEF r
<1>3. QED
  BY <1>1, <1>2, Turn DEF Sound, Within

\* A process ends.
LEMMA IdleTurn ==
  ASSUME proc \in [Procs -> Process], HopsEnd, NEW p \in Procs, proc' = [proc EXCEPT ![p] = Idle]
  PROVE  /\ proc' \in [Procs -> Process] /\ HopsEnd'
         /\ proc'[p].pc = "idle"
         /\ \A q \in Procs : q # p => proc'[q] = proc[q]
BY IdleIsProcess, Turn DEF Sound

\* A process is done with the relocation, or has nothing to relocate.
LEMMA ResolvedTurn ==
  ASSUME proc \in [Procs -> Process], HopsEnd, NEW p \in Procs, proc' = [proc EXCEPT ![p] = Resolved(p)]
  PROVE  /\ proc' \in [Procs -> Process] /\ HopsEnd'
         /\ proc'[p].pc \in {"resolve", "enter"}
         /\ \A q \in Procs : q # p => proc'[q] = proc[q]
BY ResolvedType, Turn DEF Sound

\* A process begins to relocate, with a list of files.
LEMMA ListTurn ==
  ASSUME proc \in [Procs -> Process], HopsEnd, NEW p \in Procs, NEW todo \in SUBSET Items,
         proc' = [proc EXCEPT ![p] = [@ EXCEPT !.pc = "relocate", !.todo = todo]]
  PROVE  /\ proc' \in [Procs -> Process] /\ HopsEnd'
         /\ proc'[p].pc = "relocate" /\ proc'[p].todo = todo
         /\ \A q \in Procs : q # p => proc'[q] = proc[q]
<1> DEFINE s == [proc[p] EXCEPT !.pc = "relocate"]
           r == [s EXCEPT !.todo = todo]
<1>1. s \in Process /\ s.pc = "relocate"
  BY PcUpdate, StageNames
<1>2. proc' = [proc EXCEPT ![p] = r]
  BY Zenon
<1> HIDE DEF s
<1>3. r \in Process /\ r.pc = "relocate" /\ r.todo = todo
  BY <1>1, TodoUpdate
<1> HIDE DEF r
<1>4. QED
  BY <1>2, <1>3, Turn DEF Sound

\* A process that relocates takes a file off its list.
LEMMA UnlistTurn ==
  ASSUME proc \in [Procs -> Process], HopsEnd, NEW p \in Procs, proc[p].pc = "relocate",
         NEW f \in Items, proc' = [proc EXCEPT ![p].todo = @ \ {f}]
  PROVE  /\ proc' \in [Procs -> Process] /\ HopsEnd'
         /\ proc'[p].pc = "relocate" /\ proc'[p].todo = proc[p].todo \ {f}
         /\ \A q \in Procs : q # p => proc'[q] = proc[q]
<1> DEFINE todo == proc[p].todo \ {f}
           r == [proc[p] EXCEPT !.todo = todo]
<1>1. todo \in SUBSET Items
  BY DEF Process
<1>2. proc' = [proc EXCEPT ![p] = r]
  OBVIOUS
<1> HIDE DEF todo
<1>3. r \in Process /\ r.pc = "relocate" /\ r.todo = todo
  BY <1>1, TodoUpdate
<1> HIDE DEF r
<1>4. QED
  BY <1>2, <1>3, Turn DEF Sound, todo

\* A process is somewhere in the chain of hops.
LEMMA HopTurn ==
  ASSUME proc \in [Procs -> Process], HopsEnd, NEW p \in Procs, NEW at \in 0 .. Engine,
         proc' = [proc EXCEPT ![p] = [@ EXCEPT !.pc = "hop", !.at = at]]
  PROVE  /\ proc' \in [Procs -> Process] /\ HopsEnd'
         /\ proc'[p].pc = "hop" /\ proc'[p].at = at
         /\ \A q \in Procs : q # p => proc'[q] = proc[q]
<1> DEFINE s == [proc[p] EXCEPT !.pc = "hop"]
           r == [s EXCEPT !.at = at]
<1>1. s \in Process /\ s.pc = "hop"
  BY PcUpdate, StageNames
<1>2. proc' = [proc EXCEPT ![p] = r]
  BY Zenon
<1> HIDE DEF s
<1>3. r \in Process /\ r.pc = "hop" /\ r.at = at
  BY <1>1, AtUpdate
<1> HIDE DEF r
<1>4. QED
  BY <1>2, <1>3, Turn DEF Sound

\* A process in the hop that moves files goes to the next file, or to the marker.
LEMMA FileTurn ==
  ASSUME proc \in [Procs -> Process], HopsEnd, NEW p \in Procs, proc[p].at = 2,
         NEW f \in Items \cup {"none"}, NEW pc \in {"reshape", "mark"},
         proc' = [proc EXCEPT ![p] = [@ EXCEPT !.file = f, !.pc = pc]]
  PROVE  /\ proc' \in [Procs -> Process] /\ HopsEnd'
         /\ proc'[p].pc = pc /\ proc'[p].file = f /\ proc'[p].at = 2
         /\ \A q \in Procs : q # p => proc'[q] = proc[q]
<1> DEFINE s == [proc[p] EXCEPT !.file = f]
           r == [s EXCEPT !.pc = pc]
<1>1. s \in Process /\ s.at = 2 /\ s.file = f
  BY FileUpdate
<1>2. proc' = [proc EXCEPT ![p] = r]
  BY Zenon
<1>3. pc \in Stages
  BY StageNames
<1> HIDE DEF s
<1>4. r \in Process /\ r.pc = pc /\ r.at = 2 /\ r.file = f
  BY <1>1, <1>3, PcUpdate
<1> HIDE DEF r
<1>5. Sound(r)
  BY <1>4 DEF Sound, Engine
<1>6. QED
  BY <1>2, <1>4, <1>5, Turn

\* A process goes on within the hop that renames keys or adds columns, or to the marker.
LEMMA EditTurn ==
  ASSUME proc \in [Procs -> Process], HopsEnd, NEW p \in Procs, NEW pc \in {"edit", "rewrite", "mark"},
         proc[p].at = 0 \/ (proc[p].at = 1 /\ pc = "mark"), GoesTo(p, pc)
  PROVE  /\ proc' \in [Procs -> Process] /\ HopsEnd'
         /\ proc'[p].pc = pc /\ proc'[p].at = proc[p].at
         /\ \A q \in Procs : q # p => proc'[q] = proc[q]
<1> DEFINE r == [proc[p] EXCEPT !.pc = pc]
<1>1. r \in Process /\ r.pc = pc /\ r.at = proc[p].at
  BY PcUpdate, StageNames
<1>2. proc' = [proc EXCEPT ![p] = r]
  BY DEF GoesTo
<1> HIDE DEF r
<1>3. Sound(r)
  BY <1>1 DEF Sound, Engine
<1>4. QED
  BY <1>1, <1>2, <1>3, Turn

\* A process has read the configuration, or the default.
LEMMA LoadTurn ==
  ASSUME proc \in [Procs -> Process], HopsEnd, NEW p \in Procs, NEW f \in Items \cup {"none"},
         proc' = [proc EXCEPT ![p] = [@ EXCEPT !.file = f, !.pc = "write"]]
  PROVE  /\ proc' \in [Procs -> Process] /\ HopsEnd'
         /\ proc'[p].pc = "write" /\ proc'[p].file = f
         /\ \A q \in Procs : q # p => proc'[q] = proc[q]
<1> DEFINE s == [proc[p] EXCEPT !.file = f]
           r == [s EXCEPT !.pc = "write"]
<1>1. s \in Process /\ s.file = f
  BY FileUpdate
<1>2. proc' = [proc EXCEPT ![p] = r]
  BY Zenon
<1> HIDE DEF s
<1>3. r \in Process /\ r.pc = "write" /\ r.file = f
  BY <1>1, PcUpdate, StageNames
<1> HIDE DEF r
<1>4. QED
  BY <1>2, <1>3, Turn DEF Sound

----------------------------------------------------------------------------
(* What each action makes of the processes *)

\* Process p goes on and does not relocate, or does not any more.
Elsewhere(p) ==
  /\ proc' \in [Procs -> Process] /\ HopsEnd'
  /\ proc'[p].pc # "relocate"
  /\ \A q \in Procs : q # p => proc'[q] = proc[q]

\* The part of the type invariant that is about processes.
LEMMA ProcsTyped == TypeOK => proc \in [Procs -> Process]
BY DEF TypeOK, Process, Stages

\* A process that takes a command begins by resolving its paths.
LEMMA CommandElsewhere ==
  ASSUME TypeInv, NEW p \in Procs, Command(p)
  PROVE  Elsewhere(p)
<1>1. PICK c \in Commands : proc' = [proc EXCEPT ![p] =
         [Idle EXCEPT !.pc = "resolve", !.cmd = c, !.tries = IF c = "run" THEN 2 ELSE 1]]
  BY DEF Command
<1> DEFINE n == IF c = "run" THEN 2 ELSE 1
           r == [Idle EXCEPT !.pc = "resolve"]
           s == [r EXCEPT !.cmd = c]
           t == [s EXCEPT !.tries = n]
<1>2. n \in 0 .. 2 /\ c \in Commands \cup {"none"}
  OBVIOUS
<1>3. proc' = [proc EXCEPT ![p] = t]
  BY <1>1, Zenon
<1> HIDE DEF n
<1>4. r \in Process /\ r.pc = "resolve"
  BY IdleIsProcess, PcUpdate, StageNames
<1> HIDE DEF r
<1>5. s \in Process /\ s.pc = "resolve"
  BY <1>2, <1>4, CmdUpdate
<1> HIDE DEF s
<1>6. t \in Process /\ t.pc = "resolve"
  BY <1>2, <1>5, TriesUpdate
<1> HIDE DEF t
<1>7. QED
  BY <1>3, <1>6, ProcsTyped, Turn DEF Elsewhere, Sound, TypeInv

\* Each of these actions ends a process or takes it to a stage outside of a hop.
LEMMA GoesElsewhere ==
  ASSUME TypeInv, NEW p \in Procs,
         \/ RemoveLegacy(p) \/ Enter(p) \/ Open(p) \/ MigratedConfigure(p)
         \/ TornMark(p) \/ Stop(p) \/ ConsoleSetup(p) \/ LoadConfig(p) \/ WriteConfig(p)
         \/ TornConfig(p) \/ Crash(p)
  PROVE  Elsewhere(p)
<1> USE ProcsTyped, StageNames DEF TypeInv, Elsewhere
<1>1. CASE RemoveLegacy(p)
  <2>1. proc' = [proc EXCEPT ![p].pc = "point"]
    BY <1>1 DEF RemoveLegacy, GoesTo
  <2>2. "point" \in Stages \ Within
    BY DEF Stages, Within
  <2>3. QED
    BY <2>1, <2>2, GoTurn
<1>2. CASE Enter(p)
  <2>1. PICK pc \in {"load", "migrate"} : proc' = [proc EXCEPT ![p].pc = pc]
    BY <1>2 DEF Enter, GoesTo
  <2>2. pc \in Stages \ Within /\ pc # "relocate"
    BY DEF Stages, Within
  <2>3. QED
    BY <2>1, <2>2, GoTurn
<1>3. CASE Open(p)
  <2>1. proc' = [proc EXCEPT ![p] = Idle] \/ proc' = [proc EXCEPT ![p].pc = "open"]
    BY <1>3 DEF Open, GoesTo
  <2>2. "open" \in Stages \ Within
    BY DEF Stages, Within
  <2>3. QED
    BY <2>1, <2>2, GoTurn, IdleTurn
<1>4. CASE MigratedConfigure(p)
  <2>1. proc' = [proc EXCEPT ![p].pc = "load"]
    BY <1>4 DEF MigratedConfigure, GoesTo
  <2>2. "load" \in Stages \ Within
    BY DEF Stages, Within
  <2>3. QED
    BY <2>1, <2>2, GoTurn
<1>5. CASE TornMark(p) \/ Stop(p) \/ WriteConfig(p) \/ TornConfig(p) \/ Crash(p)
  BY <1>5, IdleTurn DEF TornMark, Stop, WriteConfig, TornConfig, Crash
<1>6. CASE LoadConfig(p)
  <2>1. PICK f \in Items \cup {"none"} :
          proc' = [proc EXCEPT ![p] = [@ EXCEPT !.file = f, !.pc = "write"]]
    BY <1>6 DEF LoadConfig, Items
  <2>2. QED
    BY <2>1, LoadTurn
<1>7. CASE ConsoleSetup(p)
  <2> DEFINE r == [Idle EXCEPT !.pc = "load"]
  <2>1. r \in Process /\ r.pc = "load"
    BY IdleIsProcess, PcUpdate
  <2>2. proc' = [proc EXCEPT ![p] = r]
    BY <1>7 DEF ConsoleSetup
  <2> HIDE DEF r
  <2>3. QED
    BY <2>1, <2>2, Turn DEF Sound
<1>8. QED
  BY <1>1, <1>2, <1>3, <1>4, <1>5, <1>6, <1>7

\* The relocation ends, whatever ended it.
LEMMA ResolvedElsewhere ==
  ASSUME TypeInv, NEW p \in Procs, MoveFails(p) \/ PointRecord(p)
  PROVE  Elsewhere(p)
BY ProcsTyped, ResolvedTurn DEF TypeInv, Elsewhere, MoveFails, PointRecord

\* storage_version returns a version of the chain, whatever the marker holds.
LEMMA StorageVersionType ==
  ASSUME TypeOK
  PROVE  StorageVersion \in 0 .. Engine
BY DEF TypeOK, StorageVersion, Engine

\* The steps of the version chain stay in the chain.
LEMMA HopsElsewhere ==
  ASSUME TypeInv, NEW p \in Procs,
         \/ Migrate(p) \/ KeysHop(p) \/ Empties(p) \/ Rewrites(p) \/ ColumnsHop(p) \/ ReshapeHop(p)
         \/ MoveNoClobber(p) \/ Mark(p)
  PROVE  Elsewhere(p)
<1> USE ProcsTyped DEF TypeInv, Elsewhere
<1>1. CASE Migrate(p)
  BY <1>1, StorageVersionType, HopTurn DEF Migrate
<1>2. CASE KeysHop(p) \/ Empties(p) \/ Rewrites(p) \/ ColumnsHop(p)
  <2>1. PICK pc \in {"edit", "rewrite", "mark"} :
          GoesTo(p, pc) /\ (proc[p].at = 0 \/ (proc[p].at = 1 /\ pc = "mark"))
    BY <1>2 DEF KeysHop, Empties, Rewrites, ColumnsHop, HopFails, HopsEnd
  <2>2. QED
    BY <2>1, EditTurn
<1>3. CASE ReshapeHop(p)
  BY <1>3, FileTurn DEF ReshapeHop, Items
<1>4. CASE MoveNoClobber(p)
  <2>1. PICK f \in Items \cup {"none"}, pc \in {"reshape", "mark"} :
          proc' = [proc EXCEPT ![p] = [@ EXCEPT !.file = f, !.pc = pc]]
    BY <1>4 DEF MoveNoClobber, Items
  <2>2. proc[p].at = 2
    BY <1>4 DEF MoveNoClobber, HopsEnd
  <2>3. QED
    BY <2>1, <2>2, FileTurn
<1>5. CASE Mark(p)
  <2>1. proc[p].at \in 0 .. Engine /\ proc[p].at < Engine
    BY <1>5 DEF Mark, HopsEnd, Process
  <2>2. proc[p].at + 1 \in 0 .. Engine
    BY <2>1 DEF Engine
  <2>3. QED
    BY <1>5, <2>2, HopTurn DEF Mark
<1>6. QED
  BY <1>1, <1>2, <1>3, <1>4, <1>5

\* A process that begins to relocate lists every file of the old directory.
LEMMA ResolveLists ==
  ASSUME TypeInv, NEW p \in Procs, Resolve(p)
  PROVE  /\ proc' \in [Procs -> Process] /\ HopsEnd'
         /\ proc'[p].pc = "relocate" => proc'[p].todo = {f \in Items : place[f] = "legacy"}
         /\ \A q \in Procs : q # p => proc'[q] = proc[q]
<1> DEFINE old == {f \in Items : place[f] = "legacy"}
<1>1. \/ proc' = [proc EXCEPT ![p] = [@ EXCEPT !.pc = "relocate", !.todo = old]]
      \/ proc' = [proc EXCEPT ![p] = Resolved(p)]
  BY DEF Resolve
<1>2. old \in SUBSET Items
  OBVIOUS
<1> HIDE DEF old
<1>3. CASE proc' = [proc EXCEPT ![p] = [@ EXCEPT !.pc = "relocate", !.todo = old]]
  BY <1>2, <1>3, ProcsTyped, ListTurn DEF TypeInv, old
<1>4. CASE proc' = [proc EXCEPT ![p] = Resolved(p)]
  BY <1>4, ProcsTyped, ResolvedTurn DEF TypeInv
<1>5. QED
  BY <1>1, <1>3, <1>4

\* A process takes a file off its list when the file is out of the old directory.
LEMMA MoveIntoLists ==
  ASSUME TypeInv, NEW p \in Procs, MoveInto(p)
  PROVE  /\ proc' \in [Procs -> Process] /\ HopsEnd'
         /\ \A q \in Procs : q # p => proc'[q] = proc[q]
         /\ \E f \in Items :
              /\ place' = IF place[f] = "legacy" THEN [place EXCEPT ![f] = "flat"] ELSE place
              /\ f \in proc[p].todo
              /\ \/ proc'[p].pc \in {"resolve", "enter"} /\ ~Outside(f)
                 \/ proc'[p].pc = "relocate" /\ proc'[p].todo = proc[p].todo \ {f}
<1>1. PICK f \in proc[p].todo :
        /\ place' = IF place[f] = "legacy" THEN [place EXCEPT ![f] = "flat"] ELSE place
        /\ \/ proc' = [proc EXCEPT ![p].todo = @ \ {f}]
           \/ proc' = [proc EXCEPT ![p] = Resolved(p)] /\ ~Outside(f)
  BY DEF MoveInto
<1>2. f \in Items /\ proc[p].pc = "relocate"
  BY ProcsTyped DEF TypeInv, Process, MoveInto
<1>3. CASE proc' = [proc EXCEPT ![p].todo = @ \ {f}]
  BY <1>1, <1>2, <1>3, ProcsTyped, UnlistTurn DEF TypeInv
<1>4. CASE proc' = [proc EXCEPT ![p] = Resolved(p)] /\ ~Outside(f)
  BY <1>1, <1>2, <1>4, ProcsTyped, ResolvedTurn DEF TypeInv
<1>5. QED
  BY <1>1, <1>3, <1>4

----------------------------------------------------------------------------
(* Types *)

\* The files, the registry and the history, whatever the processes do.
Rest ==
  /\ place \in [Items -> {"none", "legacy", "flat", "home", "lost"}]
  /\ oldVersion \in 0 .. 2
  /\ marker \in 0 .. Torn
  /\ shape \in [{"db", "config"} -> {"old", "new", "gone"}]
  /\ fresh \subseteq {"db", "config", "log"}
  /\ legacyDir \in BOOLEAN /\ occupied \in BOOLEAN
  /\ record \in {"none", "legacy", "home"}
  /\ mishaps \subseteq Leaves \cup {"spoilt_db", "spoilt_config"}

\* What is counted.
Counted == used \in [commands : 0 .. MaxCommands, faults : 0 .. MaxFaults]

\* The type invariant in parts.
LEMMA TypeParts == TypeOK => Rest /\ proc \in [Procs -> Process] /\ Counted
BY DEF TypeOK, Rest, Process, Stages, Counted

\* The parts make the type invariant, before a step and after it.
LEMMA TypeFrom ==
  ASSUME Rest, proc \in [Procs -> Process], Counted, HopsEnd
  PROVE  TypeInv
BY DEF TypeInv, TypeOK, Rest, Process, Stages, Counted

\* The type invariant, put together after a step.
LEMMA TypeFromPrimed ==
  ASSUME Rest', proc' \in [Procs -> Process], Counted', HopsEnd'
  PROVE  TypeInv'
BY DEF TypeInv, TypeOK, Rest, Process, Stages, Counted

\* The types hold at the start.
LEMMA TypeInit == Init => TypeInv
<1> SUFFICES ASSUME Init
             PROVE  TypeInv
  OBVIOUS
<1>1. proc = [p \in Procs |-> Idle] /\ proc \in [Procs -> Process]
  BY IdleIsProcess DEF Init
<1>2. HopsEnd
  BY <1>1, IdleIsProcess DEF HopsEnd
<1>3. Counted
  BY MigrationAssumption DEF Init, Counted
<1>4. shape \in [{"db", "config"} -> {"old", "new", "gone"}]
  <2> DEFINE d == IF oldVersion >= 2 THEN "new" ELSE "old"
             c == IF oldVersion >= 1 THEN "new" ELSE "old"
  <2>1. shape = [db |-> d, config |-> c]
    BY DEF Init
  <2>2. d \in {"old", "new", "gone"} /\ c \in {"old", "new", "gone"}
    OBVIOUS
  <2> HIDE DEF d, c
  <2>3. QED
    BY <2>1, <2>2
<1>5. place \in [Items -> {"none", "legacy", "flat", "home", "lost"}]
  BY DEF Init
<1>6. legacyDir \in BOOLEAN
  BY DEF Init
<1>7. record \in {"none", "legacy", "home"}
  BY DEF Init
<1>8. marker \in 0 .. Torn /\ oldVersion \in 0 .. 2
  BY DEF Init, NoMarker, Torn, Engine
<1>9. fresh = {} /\ occupied = FALSE /\ mishaps = {}
  BY DEF Init
<1>10. Rest
  BY <1>4, <1>5, <1>6, <1>7, <1>8, <1>9 DEF Rest
<1>11. QED
  BY <1>1, <1>2, <1>3, <1>10, TypeFrom

\* Commands and faults are counted up to their bounds.
LEMMA UsedTyped ==
  ASSUME Counted,
         \/ used.commands < MaxCommands /\ used' = [used EXCEPT !.commands = @ + 1]
         \/ Faulty
         \/ used' = used
  PROVE  Counted'
<1> USE DEF Counted
<1>1. CASE used.commands < MaxCommands /\ used' = [used EXCEPT !.commands = @ + 1]
  <2> DEFINE n == used.commands + 1
  <2>1. n \in 0 .. MaxCommands
    BY <1>1, MigrationAssumption
  <2>2. used' = [used EXCEPT !.commands = n]
    BY <1>1
  <2> HIDE DEF n
  <2>3. QED
    BY <2>1, <2>2
<1>2. CASE Faulty
  <2> DEFINE n == used.faults + 1
  <2>1. n \in 0 .. MaxFaults
    BY <1>2, MigrationAssumption DEF Faulty
  <2>2. used' = [used EXCEPT !.faults = n]
    BY <1>2 DEF Faulty
  <2> HIDE DEF n
  <2>3. QED
    BY <2>1, <2>2
<1>3. QED
  BY <1>1, <1>2

\* What an action of one process leaves of the files has its type.
LEMMA RestStep ==
  ASSUME TypeInv, NEW p \in Procs,
         \/ Command(p) \/ Resolve(p) \/ MoveInto(p) \/ MoveFails(p) \/ RemoveLegacy(p)
         \/ PointRecord(p) \/ Enter(p) \/ Migrate(p) \/ KeysHop(p) \/ Empties(p) \/ Rewrites(p) \/ ColumnsHop(p)
         \/ ReshapeHop(p) \/ MoveNoClobber(p) \/ Mark(p) \/ TornMark(p) \/ Open(p) \/ Stop(p)
         \/ MigratedConfigure(p) \/ ConsoleSetup(p) \/ LoadConfig(p) \/ WriteConfig(p) \/ TornConfig(p)
         \/ Crash(p)
  PROVE  Rest'
<1> USE TypeParts DEF TypeInv, Rest
<1>1. CASE Command(p) \/ Resolve(p) \/ MoveFails(p) \/ PointRecord(p) \/ Migrate(p)
  BY <1>1 DEF Command, Resolve, MoveFails, PointRecord, Migrate, files, Note, Leaves
<1>2. CASE MoveInto(p) \/ RemoveLegacy(p)
  BY <1>2 DEF MoveInto, RemoveLegacy
<1>3. CASE KeysHop(p) \/ ColumnsHop(p)
  <2>1. CASE HopFails(p, "config") \/ HopFails(p, "db")
    BY <2>1 DEF HopFails, Note, Spoils, files
  <2>2. CASE UNCHANGED <<files, occupied, record, used, mishaps>>
    BY <2>2 DEF files
  <2>3. CASE ~HopFails(p, "db") /\ ColumnsHop(p)
    BY <2>3 DEF ColumnsHop
  <2>4. QED
    BY <1>3, <2>1, <2>2, <2>3 DEF KeysHop
<1>10. CASE Empties(p) \/ Rewrites(p)
  BY <1>10 DEF Empties, Rewrites
<1>4. CASE ReshapeHop(p) \/ Stop(p) \/ MigratedConfigure(p) \/ Crash(p)
  BY <1>4 DEF ReshapeHop, Stop, MigratedConfigure, Crash, files, Leaves
<1>5. CASE MoveNoClobber(p)
  <2>1. \/ place' = place
        \/ place' = [place EXCEPT ![proc[p].file] = "home"]
    BY <1>5 DEF MoveNoClobber
  <2>2. marker' = oldVersion \/ marker' = marker
    BY <1>5 DEF MoveNoClobber
  <2>3. UNCHANGED <<oldVersion, shape, fresh, legacyDir, occupied, record, mishaps>>
    BY <1>5 DEF MoveNoClobber
  <2>4. place' \in [Items -> {"none", "legacy", "flat", "home", "lost"}]
    BY <2>1
  <2>5. marker' \in 0 .. Torn
    BY <2>2 DEF Torn, Engine
  <2>6. QED
    BY <2>3, <2>4, <2>5
<1>6. CASE Mark(p)
  <2>1. proc[p].at \in 0 .. Engine
    BY DEF Process
  <2>2. QED
    BY <1>6, <2>1 DEF Mark, Torn, Engine
<1>7. CASE TornMark(p)
  BY <1>7 DEF TornMark, Torn, Engine
<1>8. CASE Open(p) \/ Enter(p)
  BY <1>8 DEF Open, Enter
<1>11. CASE ConsoleSetup(p) \/ LoadConfig(p)
  BY <1>11 DEF ConsoleSetup, LoadConfig, Note, files, Leaves
<1>12. CASE WriteConfig(p) \/ TornConfig(p)
  BY <1>12 DEF WriteConfig, TornConfig, Puts, Note, Leaves
<1>9. QED
  BY <1>1, <1>2, <1>3, <1>4, <1>5, <1>6, <1>7, <1>8, <1>10, <1>11, <1>12

\* The types survive every step.
LEMMA TypeStep == TypeInv /\ [Next]_vars => TypeInv'
<1> SUFFICES ASSUME TypeInv, [Next]_vars
             PROVE  TypeInv'
  OBVIOUS
<1> USE DEF TypeInv
<1>1. CASE \E p \in Procs :
             \/ Command(p) \/ Resolve(p) \/ MoveInto(p) \/ MoveFails(p) \/ RemoveLegacy(p)
             \/ PointRecord(p) \/ Enter(p) \/ Migrate(p) \/ KeysHop(p)
             \/ Empties(p) \/ Rewrites(p) \/ ColumnsHop(p) \/ ReshapeHop(p)
             \/ MoveNoClobber(p) \/ Mark(p) \/ TornMark(p) \/ Open(p) \/ Stop(p)
             \/ MigratedConfigure(p) \/ ConsoleSetup(p) \/ LoadConfig(p) \/ WriteConfig(p)
             \/ TornConfig(p) \/ Crash(p)
  <2>1. PICK p \in Procs :
             \/ Command(p) \/ Resolve(p) \/ MoveInto(p) \/ MoveFails(p) \/ RemoveLegacy(p)
             \/ PointRecord(p) \/ Enter(p) \/ Migrate(p) \/ KeysHop(p)
             \/ Empties(p) \/ Rewrites(p) \/ ColumnsHop(p) \/ ReshapeHop(p)
             \/ MoveNoClobber(p) \/ Mark(p) \/ TornMark(p) \/ Open(p) \/ Stop(p)
             \/ MigratedConfigure(p) \/ ConsoleSetup(p) \/ LoadConfig(p) \/ WriteConfig(p)
             \/ TornConfig(p) \/ Crash(p)
    BY <1>1
  <2>2. proc' \in [Procs -> Process] /\ HopsEnd'
    BY <2>1, CommandElsewhere, GoesElsewhere, ResolvedElsewhere, HopsElsewhere, ResolveLists,
       MoveIntoLists DEF Elsewhere
  <2>3. \/ used.commands < MaxCommands /\ used' = [used EXCEPT !.commands = @ + 1]
        \/ Faulty
        \/ used' = used
    BY <2>1 DEF Command, Resolve, MoveInto, MoveFails, RemoveLegacy, PointRecord, Enter, Migrate,
       KeysHop, Empties, Rewrites, ColumnsHop, HopFails, ReshapeHop, MoveNoClobber, Mark, TornMark, Open, Stop,
       MigratedConfigure, ConsoleSetup, LoadConfig, WriteConfig, TornConfig, Crash
  <2>4. Counted'
    BY <2>3, TypeParts, UsedTyped
  <2>5. Rest'
    BY <2>1, RestStep
  <2>6. QED
    BY <2>2, <2>4, <2>5, TypeFromPrimed
<1>2. CASE Signal
  <2>1. Counted'
    BY <1>2, TypeParts, UsedTyped DEF Signal
  <2>2. Rest' /\ proc' = proc
    BY <1>2, TypeParts DEF Signal, Note, files, Rest, Leaves
  <2>3. proc' \in [Procs -> Process] /\ HopsEnd'
    BY <2>2, TypeParts DEF HopsEnd
  <2>4. QED
    BY <2>1, <2>2, <2>3, TypeFromPrimed
<1>3. CASE UNCHANGED vars
  <2>1. Rest' /\ Counted'
    BY <1>3, TypeParts DEF vars, files, Rest, Counted
  <2>2. proc' \in [Procs -> Process] /\ HopsEnd'
    BY <1>3, TypeParts DEF vars, HopsEnd
  <2>3. QED
    BY <2>1, <2>2, TypeFromPrimed
<1>4. QED
  BY <1>1, <1>2, <1>3 DEF Next

\* Every variable keeps its type, and the chain of hops ends at the engine's version.
THEOREM MigrationTypes == Spec => []TypeOK
<1>1. TypeInv => TypeOK
  BY DEF TypeInv
<1>2. QED
  BY <1>1, TypeInit, TypeStep, PTL DEF Spec

----------------------------------------------------------------------------
(* Nothing is deleted *)

\* Nothing is deleted at the start.
LEMMA KeptInit == Init => KeptInv
BY IdleIsProcess DEF Init, KeptInv, OldKept, Listed

\* Files only leave the old directory, unless a process removes it.
LEMMA FilesLeave ==
  ASSUME TypeInv, Next
  PROVE  \/ \E p \in Procs : RemoveLegacy(p)
         \/ \A f \in Items : place'[f] = place[f] \/ place'[f] \in {"flat", "home"}
<1>1. place \in [Items -> {"none", "legacy", "flat", "home", "lost"}]
  BY DEF TypeInv, TypeOK
<1>2. ASSUME NEW p \in Procs, MoveInto(p)
      PROVE  \A f \in Items : place'[f] = place[f] \/ place'[f] \in {"flat", "home"}
  BY <1>1, <1>2, MoveIntoLists
<1>3. ASSUME NEW p \in Procs, MoveNoClobber(p)
      PROVE  \A f \in Items : place'[f] = place[f] \/ place'[f] \in {"flat", "home"}
  BY <1>1, <1>3 DEF MoveNoClobber
<1>4. ASSUME NEW p \in Procs,
             \/ Command(p) \/ Resolve(p) \/ MoveFails(p) \/ PointRecord(p) \/ Enter(p)
             \/ Migrate(p) \/ KeysHop(p) \/ Empties(p) \/ Rewrites(p) \/ ColumnsHop(p)
             \/ ReshapeHop(p) \/ Mark(p) \/ TornMark(p) \/ Open(p) \/ Stop(p)
             \/ MigratedConfigure(p) \/ ConsoleSetup(p) \/ LoadConfig(p) \/ WriteConfig(p)
             \/ TornConfig(p) \/ Crash(p)
      PROVE  place' = place
  BY <1>4 DEF Command, Resolve, MoveFails, PointRecord, Enter, Migrate, KeysHop, Empties, Rewrites,
     ColumnsHop, HopFails, ReshapeHop, Mark, TornMark, Open, Stop, MigratedConfigure, ConsoleSetup,
     LoadConfig, WriteConfig, TornConfig, Puts, Crash, files
<1>5. CASE Signal
  BY <1>5 DEF Signal, files
<1>6. QED
  BY <1>2, <1>3, <1>4, <1>5 DEF Next

\* No step deletes a file, and the lists stay complete.
LEMMA KeptStep == TypeInv /\ KeptInv /\ [Next]_vars => KeptInv'
<1> SUFFICES ASSUME TypeInv, KeptInv, [Next]_vars
             PROVE  KeptInv'
  OBVIOUS
<1> USE DEF KeptInv
<1>1. ASSUME NEW p \in Procs, RemoveLegacy(p)
      PROVE  KeptInv'
  <2>1. \A f \in Items : place[f] # "legacy"
    BY <1>1 DEF RemoveLegacy, Listed
  <2>2. \A f \in Items : place'[f] = place[f]
    BY <1>1, <2>1 DEF RemoveLegacy
  <2>3. QED
    BY <2>1, <2>2 DEF OldKept, Listed
<1>2. ASSUME Next, \A p \in Procs : ~RemoveLegacy(p)
      PROVE  OldKept'
  BY <1>2, FilesLeave DEF OldKept
<1>3. ASSUME NEW p \in Procs, Resolve(p)
      PROVE  Listed'
  BY <1>3, ResolveLists DEF Listed, Resolve, files
<1>4. ASSUME NEW p \in Procs, MoveInto(p)
      PROVE  Listed'
  <2>1. PICK f \in Items :
          /\ place' = IF place[f] = "legacy" THEN [place EXCEPT ![f] = "flat"] ELSE place
          /\ \/ proc'[p].pc # "relocate"
             \/ proc'[p].todo = proc[p].todo \ {f}
    BY <1>4, MoveIntoLists, Zenon
  <2>2. \A g \in Items : place'[g] = "legacy" => place[g] = "legacy" /\ g # f
    BY <2>1 DEF TypeInv, TypeOK
  <2>3. \A q \in Procs : q # p => proc'[q] = proc[q]
    BY <1>4, MoveIntoLists
  <2>4. proc[p].pc = "relocate"
    BY <1>4 DEF MoveInto
  <2>5. QED
    BY <2>1, <2>2, <2>3, <2>4 DEF Listed
<1>5. ASSUME Next, NEW p \in Procs, Elsewhere(p), \A q \in Procs : ~RemoveLegacy(q)
      PROVE  Listed'
  BY <1>5, FilesLeave DEF Listed, Elsewhere
<1>6. ASSUME Next, Signal
      PROVE  Listed'
  BY <1>6 DEF Signal, files, Listed
<1>7. CASE Next /\ \A p \in Procs : ~RemoveLegacy(p)
  <2>1. Listed'
    BY <1>3, <1>4, <1>5, <1>6, <1>7, CommandElsewhere, GoesElsewhere, ResolvedElsewhere,
       HopsElsewhere DEF Next
  <2>2. QED
    BY <1>2, <1>7, <2>1
<1>8. CASE UNCHANGED vars
  BY <1>8 DEF vars, files, OldKept, Listed
<1>9. QED
  BY <1>1, <1>7, <1>8

\* However many processes relocate at once, whatever fails and whenever they die, no file of
\* the old target is deleted.
THEOREM NothingDeleted == Spec => []OldKept
<1>1. TypeInv /\ KeptInv => OldKept
  BY DEF KeptInv
<1>2. QED
  BY <1>1, TypeInit, TypeStep, KeptInit, KeptStep, PTL DEF Spec

----------------------------------------------------------------------------
(* What a runner works on: the inductive invariant *)

\* Whoever gave his commands one at a time has one process in the middle of one.
OneBusy == \A p, q \in Procs : Busy(p) /\ Busy(q) => p = q

\* The file has been through its hops, or an accident has kept it from one.
Current(f) == shape[f] = "new" \/ Spoils[f] \in mishaps

\* The hops before version v have been applied to the files they edit.
Applied(v) ==
  /\ v >= 1 /\ place["config"] = "flat" => Current("config")
  /\ v >= 2 /\ place["db"] = "flat" => Current("db")

\* What a process in the chain, or one that writes a configuration, knows of the files.
Told(r) ==
  /\ r.pc = "relocate" => marker = NoMarker
  /\ r.pc \in {"hop", "reshape"} => Applied(r.at)
  /\ r.pc = "mark" => Applied(r.at + 1)
  /\ r.pc = "edit" => shape["config"] # "new"
  /\ r.pc = "write" /\ r.file = "none" => place["config"] # "home"

\* What an old version, a marker and a file that is home tell of the hops.
Tells ==
  /\ oldVersion >= 1 => Current("config")
  /\ oldVersion >= 2 => Current("db")
  /\ \A f \in {"db", "config"} : place[f] = "home" => Current(f)
  /\ marker \in 0 .. Engine => Applied(marker)

\* The configuration is empty only while its hop writes it, but for the accident.
Gone ==
  shape["config"] = "gone" => \/ Spoils["config"] \in mishaps
                             \/ \E p \in Procs : proc[p].pc = "rewrite"

\* The marker and the processes in the chain tell of hops that have been applied, or that an
\* accident has kept from a file; files only become flat before there is a marker, and only
\* get home when every hop before has been applied.
ShapeInv ==
  "overlap" \notin mishaps => OneBusy /\ Tells /\ Gone /\ \A p \in Procs : Told(proc[p])

Data == {"db", "wal", "config"}
Past == {"point", "enter", "migrate", "hop", "edit", "rewrite", "reshape", "mark", "open"}
In(where) == {f \in Items : place[f] = where}

\* Hop 2 -> 3 takes the database, its write-ahead log, the configuration, the marker and the
\* runner's log, in this order.
After(f) ==
  {g \in Items : \/ f = "db" /\ g # "db"
                 \/ f = "wal" /\ g \in {"config", "version", "log"}
                 \/ f = "config" /\ g \in {"version", "log"}}

\* The files it has been through, in a process that runs it or has run it.
Through(r) ==
  {f \in Data : \/ r.pc = "open"
                \/ r.pc = "hop" /\ r.at = Engine
                \/ r.pc = "mark" /\ r.at = 2
                \/ r.pc = "reshape" /\ r.file \in After(f)}

\* Without an accident: while a file is in the old directory the data root is empty or a
\* process fills it, and who is past the relocation has left no file behind; the hop leaves
\* none of the user's data flat, since none was made before it that it would not clobber; and a
\* database and its write-ahead log are apart only between their two moves.
AllMovedInv ==
  Leaves \cap mishaps = {} =>
    /\ In("legacy") # {} => legacyDir /\ (RootEmpty \/ \E p \in Procs : proc[p].pc = "relocate")
    /\ \A f \in fresh \cap Data : ~Outside(f)
    /\ Outside("wal") => \/ Outside("db")
                         \/ \E p \in Procs : proc[p].pc = "reshape" /\ proc[p].file = "wal"
    /\ marker = Engine => Data \cap In("flat") = {}
    /\ \A p \in Procs :
         /\ proc[p].pc \in Past => In("legacy") = {}
         /\ proc[p].pc = "relocate" => proc[p].todo = In("legacy")
         /\ proc[p].pc = "reshape" => proc[p].file # "none"
         /\ Through(proc[p]) \cap In("flat") = {}

\* At the start every file is in the old place or nowhere, with the shape of its version.
LEMMA RunInit == Init => ShapeInv /\ AllMovedInv
<1> SUFFICES ASSUME Init PROVE ShapeInv /\ AllMovedInv
  OBVIOUS
<1>1. \A p \in Procs : proc[p] = Idle /\ proc[p].pc = "idle"
  BY IdleIsProcess DEF Init
<1>2. /\ \A f \in Items : place[f] \in {"none", "legacy"}
      /\ place["wal"] = "legacy" => place["db"] = "legacy"
      /\ \A f \in Items : place[f] = "legacy" => legacyDir
  <2>1. PICK old \in Targets : /\ place = [f \in Items |-> IF f \in old THEN "legacy" ELSE "none"]
                               /\ legacyDir = (old # {})
    BY DEF Init
  <2>2. "wal" \in old => "db" \in old
    BY MigrationAssumption
  <2> QED BY <2>1, <2>2 DEF Items
<1>3. /\ shape["db"] = IF oldVersion >= 2 THEN "new" ELSE "old"
      /\ shape["config"] = IF oldVersion >= 1 THEN "new" ELSE "old"
  BY DEF Init
<1>4. ShapeInv
  <2>1. OneBusy /\ Gone /\ \A p \in Procs : Told(proc[p])
    BY <1>1, <1>3 DEF OneBusy, Busy, Gone, Told
  <2>2. Tells
    BY <1>2, <1>3 DEF Init, Tells, Current, NoMarker, Engine, Items
  <2> QED BY <2>1, <2>2 DEF ShapeInv
<1>5. In("legacy") # {} => legacyDir
  BY <1>2 DEF In
<1>6. RootEmpty
  BY <1>2 DEF Init, RootEmpty
<1>7. \A p \in Procs : Through(proc[p]) = {}
  BY <1>1 DEF Through
<1>8. marker # Engine /\ fresh = {}
  BY DEF Init, NoMarker, Engine
<1>9. Outside("wal") => Outside("db")
  BY <1>2 DEF Outside, Items
<1>10. AllMovedInv
  BY <1>1, <1>5, <1>6, <1>7, <1>8, <1>9 DEF AllMovedInv, Past
<1> QED BY <1>4, <1>10

\* A process takes a command alone, or somebody overlaps.
LEMMA OneBusyStep ==
  ASSUME TypeInv, OneBusy, Next, "overlap" \notin mishaps'
  PROVE  OneBusy'
<1>1. ASSUME NEW p \in Procs, Command(p) \/ ConsoleSetup(p) PROVE OneBusy'
  <2>1. \A q \in Procs : ~Busy(q)
    BY <1>1 DEF Command, ConsoleSetup, Note
  <2>2. \A q \in Procs : q # p => proc'[q] = proc[q]
    BY <1>1, CommandElsewhere, GoesElsewhere DEF Elsewhere
  <2> QED BY <2>1, <2>2 DEF OneBusy, Busy
<1>2. ASSUME NEW p \in Procs,
             \/ MoveFails(p) \/ RemoveLegacy(p)
             \/ PointRecord(p) \/ Enter(p) \/ Migrate(p) \/ KeysHop(p)
             \/ Empties(p) \/ Rewrites(p) \/ ColumnsHop(p) \/ ReshapeHop(p)
             \/ MoveNoClobber(p) \/ Mark(p) \/ TornMark(p) \/ Open(p)
             \/ MigratedConfigure(p) \/ LoadConfig(p) \/ WriteConfig(p) \/ TornConfig(p)
             \/ Resolve(p) \/ MoveInto(p)
      PROVE OneBusy'
  <2>1. Busy(p)
    BY <1>2 DEF MoveFails, RemoveLegacy, PointRecord, Enter, Migrate, KeysHop, Empties, Rewrites,
       ColumnsHop, HopFails, ReshapeHop, MoveNoClobber, Mark, TornMark, Open, MigratedConfigure,
       LoadConfig, WriteConfig, TornConfig, Resolve, MoveInto, Busy
  <2>2. \A q \in Procs : q # p => proc'[q] = proc[q]
    BY <1>2, GoesElsewhere, ResolvedElsewhere, HopsElsewhere, ResolveLists, MoveIntoLists DEF Elsewhere
  <2> QED BY <2>1, <2>2 DEF OneBusy, Busy
<1>3. ASSUME NEW p \in Procs, Stop(p) \/ Crash(p) PROVE OneBusy'
  <2>1. proc' = [proc EXCEPT ![p] = Idle]
    BY <1>3 DEF Stop, Crash
  <2>2. proc'[p].pc = "idle" /\ \A q \in Procs : q # p => proc'[q] = proc[q]
    BY <2>1, ProcsTyped, IdleTurn DEF TypeInv
  <2> QED BY <2>2 DEF OneBusy, Busy
<1>4. CASE Signal
  BY <1>4 DEF Signal, OneBusy, Busy
<1> QED BY <1>1, <1>2, <1>3, <1>4 DEF Next

\* Nobody else is in the middle of a command.
Alone(p) == \A q \in Procs : q # p => proc'[q] = proc[q] /\ proc[q].pc \in {"idle", "open"}

\* Who migrates, or writes what a migration moves, is the only one to.
LEMMA BusyIsAlone ==
  ASSUME TypeInv, OneBusy, NEW p \in Procs,
         \/ MoveFails(p) \/ RemoveLegacy(p)
         \/ PointRecord(p) \/ Enter(p) \/ Migrate(p) \/ KeysHop(p) \/ Empties(p) \/ Rewrites(p) \/ ColumnsHop(p)
         \/ ReshapeHop(p) \/ MoveNoClobber(p) \/ Mark(p) \/ TornMark(p) \/ Open(p)
         \/ MigratedConfigure(p) \/ LoadConfig(p) \/ WriteConfig(p) \/ TornConfig(p)
         \/ Resolve(p) \/ MoveInto(p)
  PROVE  Alone(p) /\ Busy(p)
<1>1. Busy(p)
  BY DEF MoveFails, RemoveLegacy, PointRecord, Enter, Migrate, KeysHop, Empties, Rewrites, ColumnsHop,
     HopFails, ReshapeHop, MoveNoClobber, Mark, TornMark, Open, MigratedConfigure, LoadConfig,
     WriteConfig, TornConfig, Resolve, MoveInto, Busy
<1>2. \A q \in Procs : q # p => proc'[q] = proc[q]
  BY GoesElsewhere, ResolvedElsewhere, HopsElsewhere, ResolveLists, MoveIntoLists DEF Elsewhere
<1>3. \A q \in Procs : q # p => ~Busy(q)
  BY <1>1 DEF OneBusy
<1> QED BY <1>1, <1>2, <1>3 DEF Alone, Busy

\* Accidents are remembered.
LEMMA MishapsStay == Next => mishaps \subseteq mishaps'
  BY DEF Next, Command, Resolve, MoveInto, MoveFails, RemoveLegacy, PointRecord, Enter, Migrate,
     KeysHop, Empties, Rewrites, ColumnsHop, HopFails, ReshapeHop, MoveNoClobber, Mark, TornMark, Open, Stop,
     MigratedConfigure, LoadConfig, WriteConfig, TornConfig, Puts, Crash, ConsoleSetup, Signal, Note

\* Where a process is after its step.
LEMMA ResolveMoves ==
  ASSUME TypeInv, NEW p \in Procs, Resolve(p)
  PROVE  /\ \/ /\ proc'[p].pc = "relocate" /\ proc'[p].todo = In("legacy")
               /\ legacyDir /\ RootEmpty
            \/ proc'[p].pc = "enter" /\ ~(legacyDir /\ RootEmpty)
         /\ UNCHANGED <<place, oldVersion, marker, shape, fresh, legacyDir, occupied, mishaps>>
<1> DEFINE old == In("legacy")
<1>0. UNCHANGED <<place, oldVersion, marker, shape, fresh, legacyDir, occupied, mishaps>>
  BY DEF Resolve, files
<1>1. CASE legacyDir /\ RootEmpty
  <2>1. proc' = [proc EXCEPT ![p] = [@ EXCEPT !.pc = "relocate", !.todo = old]]
    BY <1>1 DEF Resolve, In
  <2>2. old \in SUBSET Items
    BY DEF In
  <2> HIDE DEF old
  <2>3. proc'[p].pc = "relocate" /\ proc'[p].todo = old
    BY <2>1, <2>2, ProcsTyped, ListTurn DEF TypeInv
  <2>4. proc'[p].todo = In("legacy")
    BY <2>3 DEF old
  <2> QED BY <1>0, <1>1, <2>3, <2>4
<1>2. CASE ~(legacyDir /\ RootEmpty)
  <2>1. proc' = [proc EXCEPT ![p] = Resolved(p)] /\ proc[p].pc = "resolve"
    BY <1>2 DEF Resolve
  <2>2. Resolved(p).pc = "enter"
    <3> DEFINE c == IF proc[p].pc # "resolve" /\ proc[p].tries = 2 THEN "resolve" ELSE "enter"
               s == [proc[p] EXCEPT !.pc = c]
    <3>1. Resolved(p) = [s EXCEPT !.tries = 1] /\ c = "enter"
      BY <2>1, Zenon DEF Resolved
    <3>2. s \in Process /\ s.pc = "enter"
      BY <3>1, ProcsTyped, PcUpdate, StageNames DEF TypeInv
    <3> HIDE DEF s
    <3> QED BY <3>1, <3>2, TriesUpdate
  <2>3. proc'[p] = Resolved(p)
    BY <2>1, ProcsTyped DEF TypeInv
  <2> QED BY <1>0, <1>2, <2>2, <2>3
<1> QED BY <1>1, <1>2

\* Where the steps that move no file lead.
LEMMA QuietMoves ==
  ASSUME TypeInv, NEW p \in Procs
  PROVE  /\ Command(p) => proc'[p].pc = "resolve"
         /\ MoveFails(p) \/ PointRecord(p) => proc'[p].pc \in {"resolve", "enter"}
         /\ RemoveLegacy(p) => proc'[p].pc = "point"
         /\ Enter(p) => proc'[p].pc \in {"load", "migrate"}
         /\ Open(p) => proc'[p].pc \in {"idle", "open"}
         /\ MigratedConfigure(p) \/ ConsoleSetup(p) => proc'[p].pc = "load"
         /\ LoadConfig(p) => /\ proc'[p].pc = "write"
                             /\ proc'[p].file = "none" => ~AtHome("config")
         /\ TornMark(p) \/ Stop(p) \/ WriteConfig(p) \/ TornConfig(p) \/ Crash(p)
              => proc'[p].pc = "idle"
<1>0. proc \in [Procs -> Process]
  BY ProcsTyped DEF TypeInv
<1>1. ASSUME Command(p) PROVE proc'[p].pc = "resolve"
  <2>1. PICK c \in Commands : proc' = [proc EXCEPT ![p] =
         [Idle EXCEPT !.pc = "resolve", !.cmd = c, !.tries = IF c = "run" THEN 2 ELSE 1]]
    BY <1>1 DEF Command
  <2> DEFINE n == IF c = "run" THEN 2 ELSE 1
             r == [Idle EXCEPT !.pc = "resolve"]
             s == [r EXCEPT !.cmd = c]
             t == [s EXCEPT !.tries = n]
  <2>2. n \in 0 .. 2 /\ c \in Commands \cup {"none"}
    OBVIOUS
  <2>3. proc' = [proc EXCEPT ![p] = t]
    BY <2>1, Zenon
  <2> HIDE DEF n
  <2>4. r \in Process /\ r.pc = "resolve"
    BY IdleIsProcess, PcUpdate, StageNames
  <2> HIDE DEF r
  <2>5. s \in Process /\ s.pc = "resolve"
    BY <2>2, <2>4, CmdUpdate
  <2> HIDE DEF s
  <2>6. t \in Process /\ t.pc = "resolve"
    BY <2>2, <2>5, TriesUpdate
  <2> HIDE DEF t
  <2> QED BY <1>0, <2>3, <2>6
<1>2. MoveFails(p) \/ PointRecord(p) => proc'[p].pc \in {"resolve", "enter"}
  BY <1>0, ResolvedType DEF MoveFails, PointRecord
<1>3. ASSUME NEW pc, GoesTo(p, pc) PROVE proc'[p].pc = pc
  BY <1>0, <1>3 DEF GoesTo, Process
<1>4. ASSUME proc' = [proc EXCEPT ![p] = Idle] PROVE proc'[p].pc = "idle"
  BY <1>0, <1>4, IdleIsProcess
<1>5. RemoveLegacy(p) => proc'[p].pc = "point"
  BY <1>3 DEF RemoveLegacy
<1>6. Enter(p) => proc'[p].pc \in {"load", "migrate"}
  BY <1>3 DEF Enter
<1>7. Open(p) => proc'[p].pc \in {"idle", "open"}
  BY <1>3, <1>4 DEF Open
<1>8. MigratedConfigure(p) => proc'[p].pc = "load"
  BY <1>3 DEF MigratedConfigure
<1>9. TornMark(p) \/ Stop(p) \/ WriteConfig(p) \/ TornConfig(p) \/ Crash(p) => proc'[p].pc = "idle"
  BY <1>4 DEF TornMark, Stop, WriteConfig, TornConfig, Crash
<1>10. ASSUME ConsoleSetup(p) PROVE proc'[p].pc = "load"
  <2> DEFINE r == [Idle EXCEPT !.pc = "load"]
  <2>1. r.pc = "load"
    BY IdleIsProcess, PcUpdate, StageNames
  <2>2. proc' = [proc EXCEPT ![p] = r]
    BY <1>10 DEF ConsoleSetup
  <2> HIDE DEF r
  <2> QED BY <1>0, <2>1, <2>2
<1>11. ASSUME LoadConfig(p)
       PROVE  proc'[p].pc = "write" /\ (proc'[p].file = "none" => ~AtHome("config"))
  <2> DEFINE f == IF AtHome("config") THEN "config" ELSE "none"
  <2>1. proc' = [proc EXCEPT ![p] = [@ EXCEPT !.file = f, !.pc = "write"]]
    BY <1>11 DEF LoadConfig
  <2>2. f \in Items \cup {"none"} /\ (f = "none" => ~AtHome("config"))
    BY DEF Items
  <2>3. PICK g \in Items \cup {"none"} :
          /\ proc' = [proc EXCEPT ![p] = [@ EXCEPT !.file = g, !.pc = "write"]]
          /\ g = "none" => ~AtHome("config")
    <3> HIDE DEF f
    <3> QED BY <2>1, <2>2
  <2> QED BY <2>3, LoadTurn, ProcsTyped DEF TypeInv
<1> QED BY <1>1, <1>2, <1>5, <1>6, <1>7, <1>8, <1>9, <1>10, <1>11

\* Where a process of the version chain is after its step.
LEMMA ChainMoves ==
  ASSUME TypeInv, NEW p \in Procs
  PROVE  /\ Migrate(p) => proc'[p].pc = "hop" /\ proc'[p].at = StorageVersion
         /\ KeysHop(p) => proc'[p].pc \in {"edit", "mark"}
         /\ Empties(p) => proc'[p].pc \in {"rewrite", "mark"}
         /\ Rewrites(p) \/ ColumnsHop(p) => proc'[p].pc = "mark"
         /\ KeysHop(p) \/ Empties(p) \/ Rewrites(p) => proc[p].at = 0 /\ proc'[p].at = 0
         /\ ColumnsHop(p) => proc[p].at = 1 /\ proc'[p].at = 1
         /\ ReshapeHop(p) => proc'[p].pc = "reshape" /\ proc'[p].at = 2 /\ proc'[p].file = "db"
         /\ Mark(p) => proc'[p].pc = "hop" /\ proc'[p].at = proc[p].at + 1 /\ proc[p].at \in 0 .. 2
<1>0. proc \in [Procs -> Process] /\ HopsEnd /\ TypeOK
  BY ProcsTyped DEF TypeInv
<1>1. Migrate(p) => proc'[p].pc = "hop" /\ proc'[p].at = StorageVersion
  BY <1>0, StorageVersionType, HopTurn DEF Migrate
<1>2. ASSUME NEW pc \in {"edit", "rewrite", "mark"}, GoesTo(p, pc),
             proc[p].at = 0 \/ (proc[p].at = 1 /\ pc = "mark")
      PROVE  proc'[p].pc = pc /\ proc'[p].at = proc[p].at
  BY <1>0, <1>2, EditTurn
<1>5. ASSUME KeysHop(p)
      PROVE  proc'[p].pc \in {"edit", "mark"} /\ proc[p].at = 0 /\ proc'[p].at = 0
  <2>1. PICK pc \in {"edit", "mark"} : GoesTo(p, pc)
    BY <1>5 DEF KeysHop, HopFails
  <2>2. proc[p].at = 0
    BY <1>5 DEF KeysHop
  <2> QED BY <1>2, <2>1, <2>2
<1>6. ASSUME Empties(p)
      PROVE  proc'[p].pc \in {"rewrite", "mark"} /\ proc[p].at = 0 /\ proc'[p].at = 0
  <2>1. PICK pc \in {"rewrite", "mark"} : GoesTo(p, pc)
    BY <1>6 DEF Empties
  <2>2. proc[p].at = 0
    BY <1>0, <1>6 DEF Empties, HopsEnd
  <2> QED BY <1>2, <2>1, <2>2
<1>7. ASSUME Rewrites(p) PROVE proc'[p].pc = "mark" /\ proc[p].at = 0 /\ proc'[p].at = 0
  <2>1. GoesTo(p, "mark")
    BY <1>7 DEF Rewrites
  <2>2. proc[p].at = 0
    BY <1>0, <1>7 DEF Rewrites, HopsEnd
  <2> QED BY <1>2, <2>1, <2>2
<1>8. ASSUME ColumnsHop(p) PROVE proc'[p].pc = "mark" /\ proc[p].at = 1 /\ proc'[p].at = 1
  <2>1. GoesTo(p, "mark") /\ proc[p].at = 1
    BY <1>8 DEF ColumnsHop, HopFails
  <2> QED BY <1>2, <2>1
<1>3. ReshapeHop(p) => proc'[p].pc = "reshape" /\ proc'[p].at = 2 /\ proc'[p].file = "db"
  <2>1. "db" \in Items \cup {"none"} /\ "reshape" \in {"reshape", "mark"}
    BY DEF Items
  <2> QED BY <1>0, <2>1, FileTurn DEF ReshapeHop
<1>4. ASSUME Mark(p)
      PROVE  proc'[p].pc = "hop" /\ proc'[p].at = proc[p].at + 1 /\ proc[p].at \in 0 .. 2
  <2>1. proc[p].at \in 0 .. Engine /\ proc[p].at < Engine
    BY <1>0, <1>4 DEF Mark, HopsEnd, Process
  <2>2. proc[p].at + 1 \in 0 .. Engine /\ proc[p].at \in 0 .. 2
    BY <2>1 DEF Engine
  <2> QED BY <1>0, <1>4, <2>2, HopTurn DEF Mark
<1> QED BY <1>1, <1>3, <1>4, <1>5, <1>6, <1>7, <1>8

\* One move of the hop that reshapes: the next file is the log when the database moved, and
\* no file moves over another.
LEMMA ReshapeMoves ==
  ASSUME TypeInv, NEW p \in Procs, MoveNoClobber(p)
  PROVE  /\ proc[p].pc = "reshape" /\ proc[p].at = 2 /\ proc[p].file \in Items
         /\ proc'[p].at = 2
         /\ \/ place' = place /\ marker' = marker
               /\ ~(place[proc[p].file] = "flat" /\ ~AtHome(proc[p].file))
            \/ /\ place' = [place EXCEPT ![proc[p].file] = "home"]
               /\ place[proc[p].file] = "flat"
               /\ marker' = marker \/ marker' = oldVersion
         /\ \/ /\ proc[p].file = "db" /\ proc'[p].pc = "reshape"
               /\ \/ proc'[p].file = "wal" /\ place'["db"] = "home"
                  \/ proc'[p].file = "config" /\ place' = place
            \/ proc[p].file = "wal" /\ proc'[p].pc = "reshape" /\ proc'[p].file = "config"
            \/ proc[p].file = "config" /\ proc'[p].pc = "reshape" /\ proc'[p].file = "version"
            \/ proc[p].file = "version" /\ proc'[p].pc = "reshape" /\ proc'[p].file = "log"
            \/ proc[p].file = "log" /\ proc'[p].pc = "mark"
         /\ UNCHANGED <<oldVersion, shape, fresh, legacyDir, occupied, mishaps>>
<1>0. proc \in [Procs -> Process] /\ HopsEnd /\ place \in [Items -> {"none", "legacy", "flat", "home", "lost"}]
  BY ProcsTyped DEF TypeInv, TypeOK
<1> DEFINE f == proc[p].file
           moves == place[f] = "flat" /\ ~AtHome(f)
           next == CASE f = "db" -> IF moves THEN "wal" ELSE "config"
                     [] f = "wal" -> "config"
                     [] f = "config" -> "version"
                     [] f = "version" -> "log"
                     [] OTHER -> "none"
           stage == IF next = "none" THEN "mark" ELSE "reshape"
<1>1. /\ proc[p].pc = "reshape" /\ f # "none"
      /\ place' = IF moves THEN [place EXCEPT ![f] = "home"] ELSE place
      /\ marker' = IF f = "version" /\ moves THEN oldVersion ELSE marker
      /\ proc' = [proc EXCEPT ![p] = [@ EXCEPT !.file = next, !.pc = stage]]
      /\ UNCHANGED <<oldVersion, shape, fresh, legacyDir, occupied, mishaps>>
  BY DEF MoveNoClobber
<1>2. proc[p].at = 2 /\ f \in Items
  BY <1>0, <1>1 DEF HopsEnd, Process
<1>3. /\ f = "db" => next = IF moves THEN "wal" ELSE "config"
      /\ f = "wal" => next = "config"
      /\ f = "config" => next = "version"
      /\ f = "version" => next = "log"
      /\ f = "log" => next = "none"
  OBVIOUS
<1> HIDE DEF next, moves
<1>4. next \in Items \cup {"none"} /\ stage \in {"reshape", "mark"}
  BY <1>2, <1>3 DEF Items
<1>5. proc'[p].pc = stage /\ proc'[p].file = next /\ proc'[p].at = 2
  <2> HIDE DEF stage
  <2> QED BY <1>0, <1>1, <1>2, <1>4, FileTurn
<1>6. moves => place' = [place EXCEPT ![f] = "home"] /\ place'[f] = "home"
  BY <1>0, <1>1, <1>2
<1>7. \/ /\ f = "db" /\ proc'[p].pc = "reshape"
         /\ \/ proc'[p].file = "wal" /\ place'["db"] = "home"
            \/ proc'[p].file = "config" /\ place' = place
      \/ f = "wal" /\ proc'[p].pc = "reshape" /\ proc'[p].file = "config"
      \/ f = "config" /\ proc'[p].pc = "reshape" /\ proc'[p].file = "version"
      \/ f = "version" /\ proc'[p].pc = "reshape" /\ proc'[p].file = "log"
      \/ f = "log" /\ proc'[p].pc = "mark"
  <2>1. CASE f = "db"
    BY <1>1, <1>3, <1>5, <1>6, <2>1
  <2>2. CASE f # "db"
    BY <1>2, <1>3, <1>5, <2>2 DEF Items
  <2> QED BY <2>1, <2>2
<1>8. \/ place' = place /\ marker' = marker /\ ~(place[f] = "flat" /\ ~AtHome(f))
      \/ /\ place' = [place EXCEPT ![f] = "home"] /\ place[f] = "flat"
         /\ marker' = marker \/ marker' = oldVersion
  BY <1>1 DEF moves
<1> QED BY <1>1, <1>2, <1>5, <1>7, <1>8

\* No step takes a hop for applied that was not, or brings a file home without its hops.
LEMMA ShapeStep == TypeInv /\ KeptInv /\ ShapeInv /\ [Next]_vars => ShapeInv'
<1> SUFFICES ASSUME TypeInv, KeptInv, ShapeInv, [Next]_vars, "overlap" \notin mishaps'
             PROVE  ShapeInv'
  BY DEF ShapeInv
<1>1. CASE UNCHANGED vars
  BY <1>1 DEF ShapeInv, vars, files, OneBusy, Busy, Tells, Gone, Told, Applied, Current
<1>2. CASE Next
  <2>1. "overlap" \notin mishaps /\ mishaps \subseteq mishaps'
    BY <1>2, MishapsStay
  <2>2. Tells /\ Gone /\ OneBusy /\ \A p \in Procs : Told(proc[p])
    BY <2>1 DEF ShapeInv
  <2>3. OneBusy'
    BY <1>2, <2>2, OneBusyStep
  <2>4. /\ place \in [Items -> {"none", "legacy", "flat", "home", "lost"}] /\ oldVersion \in 0 .. 2
        /\ shape \in [{"db", "config"} -> {"old", "new", "gone"}] /\ marker \in 0 .. Torn
        /\ proc \in [Procs -> Process] /\ HopsEnd
    BY ProcsTyped DEF TypeInv, TypeOK
  \* the files stay as they are
  <2>5. ASSUME \A f \in Items : place'[f] = place[f], UNCHANGED <<oldVersion, shape>>
        PROVE  /\ \A f \in {"db", "config"} : Current(f) => Current(f)'
               /\ \A v \in 0 .. Engine : Applied(v) => Applied(v)'
               /\ marker' = marker => Tells'
    <3>1. \A f \in {"db", "config"} : Current(f) => Current(f)'
      BY <2>1, <2>5 DEF Current, Spoils
    <3>2. \A v \in 0 .. Engine : Applied(v) => Applied(v)'
      BY <2>5, <3>1 DEF Applied, Items
    <3>3. marker' = marker => Tells'
      <4>1. SUFFICES ASSUME UNCHANGED marker PROVE Tells'
        OBVIOUS
      <4>2. marker' \in 0 .. Engine => Applied(marker)'
        BY <2>2, <2>5, <3>1, <4>1 DEF Tells, Applied, Items
      <4> QED BY <2>2, <2>5, <3>1, <4>1, <4>2 DEF Tells, Items
    <3> QED BY <3>1, <3>2, <3>3
  \* one process is in the middle of something, and the others know nothing
  <2>6. ASSUME NEW p \in Procs, Alone(p), Tells', Told(proc[p])', Gone'
        PROVE  ShapeInv'
    <3>1. \A q \in Procs : q # p => Told(proc[q])'
      BY <2>6 DEF Alone, Told
    <3> QED BY <2>3, <2>6, <3>1 DEF ShapeInv
  \* what the process knows is of no matter in these stages
  <2>7. ASSUME NEW p \in Procs,
               proc'[p].pc \in {"idle", "resolve", "point", "enter", "migrate", "open", "load", "rewrite"}
        PROVE  Told(proc[p])'
    BY <2>7 DEF Told
  \* nobody else is in the middle of writing the configuration
  <2>8. ASSUME NEW p \in Procs, Alone(p), proc[p].pc # "rewrite"
        PROVE  shape["config"] = "gone" => Spoils["config"] \in mishaps /\ Spoils["config"] \in mishaps'
    BY <2>1, <2>2, <2>8 DEF Gone, Alone
  <2>9. ASSUME NEW p \in Procs, Alone(p), proc[p].pc # "rewrite", shape'["config"] = shape["config"]
        PROVE  Gone'
    BY <2>8, <2>9 DEF Gone
  <2>10. ASSUME NEW p \in Procs, Command(p) \/ Stop(p) \/ Crash(p) \/ ConsoleSetup(p) PROVE ShapeInv'
    <3>1. UNCHANGED <<place, oldVersion, marker, shape>>
      BY <2>10 DEF Command, Stop, Crash, ConsoleSetup, files
    <3>2. proc'[p].pc \in {"resolve", "idle", "load"} /\ \A q \in Procs : q # p => proc'[q] = proc[q]
      BY <2>10, QuietMoves, CommandElsewhere, GoesElsewhere DEF Elsewhere
    <3>3. proc[p].pc = "rewrite" => Spoils["config"] \in mishaps'
      BY <2>10 DEF Command, Stop, Crash, ConsoleSetup, Spoils
    <3>4. Gone'
      BY <2>1, <2>2, <3>1, <3>2, <3>3 DEF Gone
    <3>5. ASSUME NEW q \in Procs, q # p PROVE Told(proc[q])'
      <4>1. proc'[q] = proc[q] /\ Told(proc[q])
        BY <2>2, <3>2, <3>5
      <4>2. proc[q].at \in 0 .. Engine /\ (proc[q].pc = "mark" => proc[q].at + 1 \in 0 .. Engine)
        BY <2>4 DEF Process, HopsEnd, Engine
      <4> QED BY <2>5, <3>1, <4>1, <4>2 DEF Told
    <3> QED BY <2>3, <2>5, <2>7, <3>1, <3>2, <3>4, <3>5 DEF ShapeInv
  <2>11. ASSUME NEW p \in Procs,
               \/ MoveFails(p) \/ PointRecord(p) \/ Enter(p) \/ Open(p) \/ MigratedConfigure(p)
               \/ LoadConfig(p)
        PROVE  ShapeInv'
    <3>1. UNCHANGED <<place, oldVersion, marker, shape>> /\ proc[p].pc # "rewrite"
      BY <2>11 DEF MoveFails, PointRecord, Enter, Open, MigratedConfigure, LoadConfig, files
    <3>2. Alone(p)
      BY <2>2, <2>11, BusyIsAlone
    <3>3. Told(proc[p])'
      <4>1. CASE LoadConfig(p)
        BY <3>1, <4>1, QuietMoves DEF AtHome, Told
      <4>2. CASE ~LoadConfig(p)
        BY <2>7, <2>11, <4>2, QuietMoves
      <4> QED BY <4>1, <4>2
    <3> QED BY <2>5, <2>6, <2>9, <3>1, <3>2, <3>3
  <2>12. ASSUME NEW p \in Procs, WriteConfig(p) \/ TornConfig(p) PROVE ShapeInv'
    <3>1. /\ UNCHANGED <<place, oldVersion, marker>> /\ proc[p].pc = "write" /\ proc'[p].pc = "idle"
          /\ shape'["db"] = shape["db"]
      BY <2>4, <2>12, QuietMoves DEF WriteConfig, TornConfig, Puts
    <3>2. Alone(p)
      BY <2>2, <2>12, BusyIsAlone
    <3>3. \/ shape'["config"] = shape["config"]
          \/ shape'["config"] = "gone" /\ Spoils["config"] \in mishaps'
      <4>1. CASE WriteConfig(p)
        BY <2>2, <2>4, <4>1 DEF WriteConfig, Puts, Told
      <4>2. CASE TornConfig(p)
        BY <2>4, <4>2 DEF TornConfig, Puts, Spoils
      <4> QED BY <2>12, <4>1, <4>2
    <3>4. \A f \in {"db", "config"} : Current(f) => Current(f)'
      BY <2>1, <3>1, <3>3 DEF Current, Spoils
    <3>5. Tells'
      BY <2>2, <3>1, <3>4 DEF Tells, Applied
    <3>6. Gone'
      BY <2>9, <3>1, <3>2, <3>3 DEF Gone
    <3> QED BY <2>6, <2>7, <3>1, <3>2, <3>5, <3>6
  <2>13. ASSUME NEW p \in Procs, Resolve(p) PROVE ShapeInv'
    <3>1. UNCHANGED <<place, oldVersion, marker, shape>> /\ proc[p].pc = "resolve"
      BY <2>13, ResolveMoves DEF Resolve
    <3>2. (proc'[p].pc = "relocate" /\ marker = NoMarker) \/ proc'[p].pc = "enter"
      BY <2>13, ResolveMoves DEF RootEmpty
    <3>3. Told(proc[p])'
      BY <3>1, <3>2 DEF Told
    <3> QED BY <2>2, <2>5, <2>6, <2>9, <2>13, <3>1, <3>3, BusyIsAlone
  <2>14. ASSUME NEW p \in Procs, MoveInto(p) PROVE ShapeInv'
    <3>1. UNCHANGED <<oldVersion, marker, shape>> /\ proc[p].pc = "relocate" /\ marker = NoMarker
      BY <2>2, <2>14 DEF MoveInto, Told
    <3>2. \A f \in Items : place'[f] = "home" => place[f] = "home"
      BY <2>4, <2>14, MoveIntoLists
    <3>3. \A f \in {"db", "config"} : Current(f) => Current(f)'
      BY <2>1, <3>1 DEF Current, Spoils
    <3>4. Tells'
      BY <2>2, <3>1, <3>2, <3>3 DEF Tells, NoMarker, Engine, Items
    <3>5. Told(proc[p])'
      BY <2>14, <3>1, MoveIntoLists DEF Told
    <3> QED BY <2>2, <2>6, <2>9, <2>14, <3>1, <3>4, <3>5, BusyIsAlone
  <2>15. ASSUME NEW p \in Procs, RemoveLegacy(p) PROVE ShapeInv'
    <3>1. \A f \in Items : place'[f] = place[f]
      BY <2>15 DEF RemoveLegacy, KeptInv, Listed
    <3>2. UNCHANGED <<oldVersion, marker, shape>> /\ proc[p].pc = "relocate"
      BY <2>15 DEF RemoveLegacy
    <3>3. proc'[p].pc = "point"
      BY <2>15, QuietMoves
    <3> QED BY <2>2, <2>5, <2>6, <2>7, <2>9, <2>15, <3>1, <3>2, <3>3, BusyIsAlone
  <2>16. ASSUME NEW p \in Procs, Migrate(p) PROVE ShapeInv'
    <3>1. UNCHANGED <<place, oldVersion, marker, shape>> /\ proc[p].pc = "migrate"
      BY <2>16 DEF Migrate, files
    <3>2. Applied(StorageVersion) /\ StorageVersion \in 0 .. Engine
      BY <2>2, <2>4 DEF StorageVersion, Applied, Tells, Engine
    <3> QED BY <2>2, <2>5, <2>6, <2>9, <2>16, <3>1, <3>2, ChainMoves, BusyIsAlone DEF Told
  <2>17. ASSUME NEW p \in Procs, ReshapeHop(p) PROVE ShapeInv'
    <3>1. UNCHANGED <<place, oldVersion, marker, shape>> /\ proc[p].pc = "hop" /\ proc[p].at = 2
      BY <2>17 DEF ReshapeHop, files
    <3>2. Applied(2) /\ 2 \in 0 .. Engine
      BY <2>2, <3>1 DEF Told, Engine
    <3>3. Applied(2)'
      BY <2>5, <3>1, <3>2
    <3>4. Told(proc[p])'
      BY <2>17, <3>3, ChainMoves DEF Told
    <3> QED BY <2>2, <2>5, <2>6, <2>9, <2>17, <3>1, <3>4, BusyIsAlone
  <2>18. ASSUME NEW p \in Procs, KeysHop(p) PROVE ShapeInv'
    <3>1. UNCHANGED <<place, oldVersion, marker, shape>> /\ proc[p].pc = "hop" /\ proc[p].at = 0
      BY <2>18 DEF KeysHop, HopFails, files
    <3>2. Alone(p)
      BY <2>2, <2>18, BusyIsAlone
    <3>3. proc'[p].pc \in {"edit", "mark"} /\ proc'[p].at = 0
      BY <2>18, ChainMoves
    <3>4. proc'[p].pc = "edit" => shape["config"] = "old"
      BY <2>4, <2>18 DEF KeysHop, HopFails, GoesTo, Process
    <3>5. proc'[p].pc = "mark" => Applied(1)'
      <4>1. CASE HopFails(p, "config")
        BY <3>1, <4>1 DEF HopFails, Note, Applied, Current
      <4>2. CASE ~HopFails(p, "config") /\ proc'[p].pc = "mark"
        <5>1. place["config"] = "flat" => shape["config"] # "old"
          BY <2>4, <2>18, <4>2 DEF KeysHop, GoesTo, Process
        <5> QED BY <2>4, <2>8, <3>1, <3>2, <5>1 DEF Applied, Current
      <4> QED BY <4>1, <4>2
    <3>6. Told(proc[p])'
      BY <3>1, <3>3, <3>4, <3>5 DEF Told
    <3> QED BY <2>5, <2>6, <2>9, <3>1, <3>2, <3>6
  <2>19. ASSUME NEW p \in Procs, Empties(p) PROVE ShapeInv'
    <3>1. /\ UNCHANGED <<place, oldVersion, marker, mishaps>> /\ proc[p].pc = "edit"
          /\ shape'["db"] = shape["db"]
          /\ \/ shape' = shape /\ place["config"] # "flat"
             \/ shape'["config"] = "gone" /\ proc'[p].pc = "rewrite"
      BY <2>4, <2>19 DEF Empties, GoesTo, Process
    <3>2. \A f \in {"db", "config"} : Current(f) => Current(f)'
      BY <2>2, <3>1 DEF Current, Told
    <3>3. Tells'
      BY <2>2, <3>1, <3>2 DEF Tells, Applied
    <3>4. Alone(p)
      BY <2>2, <2>19, BusyIsAlone
    <3>5. Gone'
      BY <2>9, <3>1, <3>4 DEF Gone
    <3>6. proc'[p].pc \in {"rewrite", "mark"} /\ proc'[p].at = 0
      BY <2>19, ChainMoves
    <3>7. proc'[p].pc = "mark" => Applied(1)'
      <4>1. proc'[p].pc = "mark" => place'["config"] # "flat"
        BY <2>4, <2>19 DEF Empties, GoesTo, Process
      <4> QED BY <4>1 DEF Applied
    <3>8. Told(proc[p])'
      BY <3>6, <3>7 DEF Told
    <3> QED BY <2>6, <3>3, <3>4, <3>5, <3>8
  <2>20. ASSUME NEW p \in Procs, Rewrites(p) \/ ColumnsHop(p) PROVE ShapeInv'
    <3>1. /\ UNCHANGED <<place, oldVersion, marker>>
          /\ \A f \in {"db", "config"} : shape'[f] = shape[f] \/ shape'[f] = "new"
      BY <2>4, <2>20 DEF Rewrites, ColumnsHop, HopFails, files
    <3>2. \A f \in {"db", "config"} : Current(f) => Current(f)'
      BY <2>1, <3>1 DEF Current, Spoils
    <3>3. Tells'
      BY <2>2, <3>1, <3>2 DEF Tells, Applied
    <3>4. Alone(p) /\ proc'[p].pc = "mark"
      BY <2>2, <2>20, BusyIsAlone, ChainMoves
    <3>5. Told(proc[p])' /\ Gone'
      <4>1. CASE Rewrites(p)
        <5>1. shape'["config"] = "new"
          BY <2>4, <4>1 DEF Rewrites
        <5>2. Applied(1)' /\ proc'[p].at = 0
          BY <4>1, <5>1, ChainMoves DEF Applied, Current
        <5> QED BY <3>4, <5>1, <5>2 DEF Told, Gone
      <4>2. CASE ColumnsHop(p)
        <5>1. proc[p].pc = "hop" /\ proc[p].at = 1 /\ proc'[p].at = 1 /\ shape'["config"] = shape["config"]
          BY <2>4, <4>2, ChainMoves DEF ColumnsHop, HopFails, files
        <5>2. place["config"] = "flat" => Current("config")
          BY <2>2, <5>1 DEF Told, Applied
        <5>3. place["db"] = "flat" => Current("db")'
          <6>1. CASE HopFails(p, "db")
            BY <6>1 DEF HopFails, Note, Current, files
          <6>2. CASE ~HopFails(p, "db")
            BY <2>4, <4>2, <6>2 DEF ColumnsHop, Current
          <6> QED BY <6>1, <6>2
        <5>4. Applied(2)'
          BY <3>1, <3>2, <5>2, <5>3 DEF Applied
        <5> QED BY <2>9, <3>4, <5>1, <5>4 DEF Told
      <4> QED BY <2>20, <4>1, <4>2
    <3> QED BY <2>6, <3>3, <3>4, <3>5
  <2>21. ASSUME NEW p \in Procs, MoveNoClobber(p) PROVE ShapeInv'
    <3>1. UNCHANGED <<oldVersion, shape, mishaps>> /\ marker' \in {marker, oldVersion}
      BY <2>21, ReshapeMoves
    <3>2. proc[p].pc = "reshape" /\ proc[p].at = 2 /\ Applied(2)
      BY <2>2, <2>21, ReshapeMoves DEF Told
    <3>3. \A f \in Items : \/ place'[f] = place[f]
                           \/ place'[f] = "home" /\ place[f] = "flat"
      BY <2>4, <2>21, ReshapeMoves
    <3>4. \A f \in {"db", "config"} : place[f] = "flat" => Current(f)
      BY <3>2 DEF Applied
    <3>5. \A f \in {"db", "config"} : Current(f)' = Current(f)
      BY <3>1 DEF Current
    <3>6. \A f \in {"db", "config"} : place'[f] \in {"flat", "home"} => Current(f)'
      BY <2>2, <3>3, <3>4, <3>5 DEF Tells, Items
    <3>7. Applied(1)' /\ Applied(2)' /\ Applied(3)' /\ (marker' \in 0 .. Engine => Applied(marker)')
      BY <3>6 DEF Applied
    <3>8. Tells'
      BY <2>2, <3>1, <3>5, <3>6, <3>7 DEF Tells
    <3>9. proc'[p].at = 2 /\ proc'[p].pc \in {"reshape", "mark"}
      BY <2>21, ReshapeMoves
    <3>10. Told(proc[p])'
      BY <3>7, <3>9 DEF Told
    <3> QED BY <2>2, <2>6, <2>9, <2>21, <3>1, <3>2, <3>8, <3>10, BusyIsAlone
  <2>22. ASSUME NEW p \in Procs, Mark(p) PROVE ShapeInv'
    <3>1. UNCHANGED <<place, oldVersion, shape>> /\ proc[p].pc = "mark" /\ marker' = proc[p].at + 1
      BY <2>22 DEF Mark
    <3>2. /\ proc'[p].pc = "hop" /\ proc'[p].at = proc[p].at + 1 /\ proc[p].at + 1 \in 0 .. Engine
      BY <2>22, ChainMoves DEF Engine
    <3>3. Applied(proc[p].at + 1)
      BY <2>2, <3>1 DEF Told
    <3>4. \A f \in {"db", "config"} : Current(f) => Current(f)'
      BY <2>5, <3>1
    <3>5. Applied(marker)' /\ Told(proc[p])'
      BY <3>1, <3>2, <3>3, <3>4 DEF Applied, Told
    <3>6. Tells'
      BY <2>2, <3>1, <3>4, <3>5 DEF Tells
    <3> QED BY <2>2, <2>6, <2>9, <2>22, <3>1, <3>5, <3>6, BusyIsAlone
  <2>23. ASSUME NEW p \in Procs, TornMark(p) PROVE ShapeInv'
    <3>1. UNCHANGED <<place, oldVersion, shape>> /\ marker' = Torn /\ proc[p].pc = "mark"
      BY <2>23 DEF TornMark
    <3>2. \A f \in {"db", "config"} : Current(f) => Current(f)'
      BY <2>5, <3>1
    <3>3. Tells'
      BY <2>2, <3>1, <3>2 DEF Tells, Torn, Engine
    <3>4. proc'[p].pc = "idle"
      BY <2>23, QuietMoves
    <3> QED BY <2>2, <2>6, <2>7, <2>9, <2>23, <3>1, <3>3, <3>4, BusyIsAlone
  <2>24. CASE Signal
    <3>1. UNCHANGED <<place, oldVersion, marker, shape, proc>>
      BY <2>24 DEF Signal, files
    <3>2. Gone'
      BY <2>1, <2>2, <3>1 DEF Gone
    <3>3. ASSUME NEW q \in Procs PROVE Told(proc[q])'
      <4>1. proc[q].at \in 0 .. Engine /\ (proc[q].pc = "mark" => proc[q].at + 1 \in 0 .. Engine)
        BY <2>4 DEF Process, HopsEnd, Engine
      <4> QED BY <2>2, <2>5, <3>1, <4>1 DEF Told
    <3> QED BY <2>3, <2>5, <3>1, <3>2, <3>3 DEF ShapeInv
  <2> QED BY <1>2, <2>10, <2>11, <2>12, <2>13, <2>14, <2>15, <2>16, <2>17, <2>18, <2>19, <2>20,
             <2>21, <2>22, <2>23, <2>24 DEF Next
<1> QED BY <1>1, <1>2

\* What a process has been through, by its stage.
LEMMA ThroughStages ==
  ASSUME NEW r
  PROVE  /\ r.pc \notin {"open", "hop", "mark", "reshape"} => Through(r) = {}
         /\ r.pc \in {"hop", "mark"} /\ r.at \in {0, 1} => Through(r) = {}
         /\ r.pc = "hop" /\ r.at = 2 => Through(r) = {}
         /\ r.pc = "hop" /\ r.at = Engine => Through(r) = Data
         /\ r.pc = "mark" /\ r.at = 2 => Through(r) = Data
         /\ r.pc = "open" => Through(r) = Data
         /\ r.pc = "reshape" /\ r.file = "db" => Through(r) = {}
         /\ r.pc = "reshape" /\ r.file = "wal" => Through(r) = {"db"}
         /\ r.pc = "reshape" /\ r.file = "config" => Through(r) = {"db", "wal"}
         /\ r.pc = "reshape" /\ r.file \in {"version", "log"} => Through(r) = Data
  BY DEF Through, After, Data, Items, Engine

\* Without an accident, no step leaves a file behind.
LEMMA AllMovedStep == TypeInv /\ KeptInv /\ ShapeInv /\ AllMovedInv /\ [Next]_vars => AllMovedInv'
<1> SUFFICES ASSUME TypeInv, KeptInv, ShapeInv, AllMovedInv, [Next]_vars,
                    Leaves \cap mishaps' = {}
             PROVE  AllMovedInv'
  BY DEF AllMovedInv
<1> DEFINE Clean(r) == /\ r.pc \in Past => In("legacy") = {}
                       /\ r.pc = "relocate" => r.todo = In("legacy")
                       /\ r.pc = "reshape" => r.file # "none"
                       /\ Through(r) \cap In("flat") = {}
           Filling == In("legacy") # {}
                        => legacyDir /\ (RootEmpty \/ \E p \in Procs : proc[p].pc = "relocate")
           Fresh == \A f \in fresh \cap Data : ~Outside(f)
           Pair == Outside("wal") => \/ Outside("db")
                                     \/ \E p \in Procs : proc[p].pc = "reshape" /\ proc[p].file = "wal"
           Marked == marker = Engine => Data \cap In("flat") = {}
<1>1. CASE UNCHANGED vars
  BY <1>1 DEF AllMovedInv, vars, files, In, RootEmpty, Outside, Through
<1>2. CASE Next
  <2>1. /\ Leaves \cap mishaps = {} /\ "overlap" \notin mishaps
        /\ {"overlap", "cut_relocation", "cut_pair", "early_write"} \cap mishaps' = {}
    BY <1>2, MishapsStay DEF Leaves
  <2>2. /\ OneBusy
        /\ \A p \in Procs : proc[p].pc = "relocate" => marker = NoMarker
    BY <2>1 DEF ShapeInv, Told
  <2>3. Filling /\ Fresh /\ Pair /\ Marked /\ \A p \in Procs : Clean(proc[p])
    BY <2>1 DEF AllMovedInv
  <2>4. /\ place \in [Items -> {"none", "legacy", "flat", "home", "lost"}] /\ oldVersion \in 0 .. 2
        /\ fresh \subseteq {"db", "config", "log"} /\ marker \in 0 .. Torn
        /\ proc \in [Procs -> Process] /\ HopsEnd
    BY ProcsTyped DEF TypeInv, TypeOK
  <2>5. ASSUME UNCHANGED place, Filling', Fresh', Pair', Marked',
               \A q \in Procs : \/ proc'[q] = proc[q]
                                \/ proc'[q].pc \in {"idle", "resolve", "load", "write"}
        PROVE  AllMovedInv'
    <3>1. UNCHANGED <<In("legacy"), In("flat")>>
      BY <2>5 DEF In
    <3>2. ASSUME NEW q \in Procs PROVE Clean(proc[q])'
      <4>1. CASE proc'[q] = proc[q]
        BY <2>3, <3>1, <4>1 DEF Through
      <4>2. CASE proc'[q].pc \in {"idle", "resolve", "load", "write"}
        BY <4>2 DEF Past, Through
      <4> QED BY <2>5, <4>1, <4>2
    <3> QED BY <2>5, <3>2 DEF AllMovedInv
  <2>6. ASSUME NEW p \in Procs, Alone(p), Filling', Fresh', Pair', Marked', Clean(proc[p])',
               \A f \in Items : /\ place'[f] = "legacy" => place[f] = "legacy"
                                /\ place'[f] = "flat" => place[f] \in {"flat", "legacy"}
        PROVE  AllMovedInv'
    <3>1. ASSUME NEW q \in Procs, q # p PROVE Clean(proc[q])'
      <4>1. proc'[q] = proc[q] /\ proc[q].pc \in {"idle", "open"}
        BY <2>6, <3>1 DEF Alone
      <4>2. CASE proc[q].pc = "idle"
        BY <4>1, <4>2 DEF Past, Through
      <4>3. CASE proc[q].pc = "open"
        <5>1. In("legacy") = {} /\ Data \cap In("flat") = {}
          BY <2>3, <4>3, ThroughStages DEF Past
        <5>2. In("legacy")' = {} /\ Data \cap In("flat")' = {}
          BY <2>6, <5>1 DEF In
        <5> QED BY <4>1, <4>3, <5>2 DEF Through, Data
      <4> QED BY <4>1, <4>2, <4>3
    <3> QED BY <2>6, <3>1 DEF AllMovedInv
  <2> USE <2>1, <2>2, <2>3, <2>4
  <2> HIDE DEF Clean, Filling, Fresh, Pair, Marked
  <2>7. ASSUME NEW p \in Procs, Command(p) \/ ConsoleSetup(p) PROVE AllMovedInv'
    <3>1. UNCHANGED <<place, marker, fresh, legacyDir, occupied>> /\ proc[p].pc = "idle"
      BY <2>7 DEF Command, ConsoleSetup, files
    <3>2. proc'[p].pc \in {"resolve", "load"} /\ \A q \in Procs : q # p => proc'[q] = proc[q]
      BY <2>7, QuietMoves, CommandElsewhere, GoesElsewhere DEF Elsewhere
    <3>3. Filling'
      BY <3>1, <3>2 DEF Filling, In, RootEmpty
    <3>4. Pair'
      BY <3>1, <3>2 DEF Pair, Outside
    <3>5. Fresh' /\ Marked'
      BY <3>1 DEF Fresh, Marked, Outside, In
    <3> QED BY <2>5, <3>1, <3>2, <3>3, <3>4, <3>5
  <2>8. ASSUME NEW p \in Procs, Crash(p) PROVE AllMovedInv'
    <3>1. UNCHANGED <<place, marker, fresh, legacyDir, occupied>>
      BY <2>8 DEF Crash, files
    <3>2. proc'[p].pc = "idle" /\ \A q \in Procs : q # p => proc'[q] = proc[q]
      BY <2>8, QuietMoves, GoesElsewhere DEF Elsewhere
    <3>3. ~(proc[p].pc = "relocate" /\ proc[p].todo # {} /\ ~RootEmpty)
          /\ ~(proc[p].pc = "reshape" /\ proc[p].file = "wal" /\ place["wal"] = "flat")
      BY <2>8 DEF Crash
    <3>4. Filling'
      <4>1. UNCHANGED <<In("legacy"), RootEmpty, legacyDir>>
        BY <3>1 DEF In, RootEmpty
      <4>2. In("legacy") # {} /\ proc[p].pc = "relocate" => RootEmpty
        BY <3>3 DEF Clean
      <4> QED BY <3>2, <4>1, <4>2 DEF Filling
    <3>5. Pair'
      <4>1. UNCHANGED <<Outside("wal"), Outside("db")>>
        BY <3>1 DEF Outside
      <4>2. proc[p].pc = "reshape" /\ proc[p].file = "wal" => ~Outside("wal")
        BY <3>3 DEF Clean, Past, In, Outside, Items
      <4> QED BY <3>2, <4>1, <4>2 DEF Pair
    <3>6. Fresh' /\ Marked'
      BY <3>1 DEF Fresh, Marked, Outside, In
    <3> QED BY <2>5, <3>1, <3>2, <3>4, <3>5, <3>6
  <2>9. ASSUME NEW p \in Procs, Stop(p) PROVE AllMovedInv'
    <3>1. UNCHANGED <<place, marker, fresh, legacyDir, occupied>> /\ proc[p].pc = "open"
      BY <2>9 DEF Stop, files
    <3>2. proc'[p].pc = "idle" /\ \A q \in Procs : q # p => proc'[q] = proc[q]
      BY <2>9, QuietMoves, GoesElsewhere DEF Elsewhere
    <3>3. Filling'
      BY <3>1, <3>2 DEF Filling, In, RootEmpty
    <3>4. Pair'
      BY <3>1, <3>2 DEF Pair, Outside
    <3>5. Fresh' /\ Marked'
      BY <3>1 DEF Fresh, Marked, Outside, In
    <3> QED BY <2>5, <3>1, <3>2, <3>3, <3>4, <3>5
  <2>10. CASE Signal
    <3>1. UNCHANGED <<place, marker, fresh, legacyDir, proc>> /\ ~(RootEmpty /\ legacyDir)
      BY <2>10 DEF Signal, Note, files
    <3>2. Filling'
      BY <3>1 DEF Filling, In
    <3>3. Pair' /\ Fresh' /\ Marked'
      BY <3>1 DEF Pair, Fresh, Marked, Outside, In
    <3> QED BY <2>5, <3>1, <3>2, <3>3
  <2>11. ASSUME NEW c, Puts(c), ~Early
         PROVE  /\ UNCHANGED <<place, marker, legacyDir>> /\ Fresh'
                /\ fresh' = fresh \/ In("legacy") = {}
    <3>1. /\ UNCHANGED <<place, marker, legacyDir>>
          /\ AtHome("config") \/ \A f \in Items : ~Outside(f)
          /\ fresh' = IF AtHome("config") THEN fresh ELSE fresh \cup {"config"}
      BY <2>11 DEF Puts, Early
    <3>2. CASE AtHome("config")
      BY <3>1, <3>2 DEF Fresh, Outside
    <3>3. CASE \A f \in Items : ~Outside(f)
      <4>1. In("legacy") = {}
        BY <3>3 DEF In, Outside
      <4>2. \A f \in fresh' \cap Data : ~Outside(f)
        BY <3>3 DEF Data, Items
      <4> QED BY <3>1, <4>1, <4>2 DEF Fresh, Outside
    <3> QED BY <3>1, <3>2, <3>3
  <2>13. ASSUME NEW p \in Procs, LoadConfig(p) \/ WriteConfig(p) \/ TornConfig(p) PROVE AllMovedInv'
    <3>3. UNCHANGED <<place, marker, legacyDir>> /\ Fresh' /\ (fresh' = fresh \/ In("legacy") = {})
      <4>1. CASE LoadConfig(p)
        BY <4>1 DEF LoadConfig, files, Fresh, Outside
      <4>2. CASE WriteConfig(p) \/ TornConfig(p)
        <5>1. ~Early /\ \E c : Puts(c)
          BY <4>2 DEF WriteConfig, TornConfig, Note
        <5> QED BY <2>11, <5>1
      <4> QED BY <2>13, <4>1, <4>2
    <3>4. /\ occupied' = occupied /\ proc[p].pc \in {"load", "write"}
          /\ proc'[p].pc \in {"write", "idle"} /\ \A q \in Procs : q # p => proc'[q] = proc[q]
      BY <2>13, QuietMoves, GoesElsewhere DEF LoadConfig, WriteConfig, TornConfig, Elsewhere
    <3>5. Filling'
      <4>1. UNCHANGED In("legacy")
        BY <3>3 DEF In
      <4>2. In("legacy") # {} => UNCHANGED RootEmpty
        BY <3>3, <3>4 DEF RootEmpty
      <4> QED BY <3>3, <3>4, <4>1, <4>2 DEF Filling
    <3>6. Pair'
      BY <3>3, <3>4 DEF Pair, Outside
    <3>7. Marked'
      BY <3>3 DEF Marked, In
    <3> QED BY <2>5, <3>3, <3>4, <3>5, <3>6, <3>7
  <2>14. ASSUME NEW p \in Procs PROVE ~MoveFails(p)
    BY DEF MoveFails, Note
  <2>16. ASSUME NEW p \in Procs, Resolve(p) PROVE AllMovedInv'
    <3>0. Alone(p) /\ proc[p].pc = "resolve"
      BY <2>16, BusyIsAlone DEF Resolve
    <3>1. UNCHANGED <<place, marker, fresh, legacyDir, occupied>>
      BY <2>16, ResolveMoves
    <3>2. UNCHANGED <<In("legacy"), In("flat"), RootEmpty, Outside("wal"), Outside("db")>>
      BY <3>1 DEF In, RootEmpty, Outside
    <3>3. Fresh' /\ Marked'
      BY <3>1 DEF Fresh, Marked, Outside, In
    <3>4. Filling'
      BY <3>0, <3>1, <3>2 DEF Filling, Alone
    <3>5. Pair'
      BY <3>0, <3>2 DEF Pair, Alone
    <3>6. CASE proc'[p].pc = "relocate" /\ proc'[p].todo = In("legacy")
      <4>1. Clean(proc[p])'
        BY <3>2, <3>6 DEF Clean, Past, Through
      <4> QED BY <2>6, <3>0, <3>1, <3>3, <3>4, <3>5, <4>1
    <3>7. CASE proc'[p].pc = "enter" /\ ~(legacyDir /\ RootEmpty)
      <4>1. \A q \in Procs : proc[q].pc # "relocate"
        BY <3>0 DEF Alone
      <4>2. In("legacy") = {}
        BY <3>7, <4>1 DEF Filling
      <4>3. Clean(proc[p])'
        BY <3>2, <3>7, <4>2 DEF Clean, Past, Through
      <4> QED BY <2>6, <3>0, <3>1, <3>3, <3>4, <3>5, <4>3
    <3> QED BY <2>16, <3>6, <3>7, ResolveMoves
  <2>17. ASSUME NEW p \in Procs, MoveInto(p) PROVE AllMovedInv'
    <3>0. Alone(p) /\ proc[p].pc = "relocate" /\ proc[p].todo = In("legacy")
      BY <2>17, BusyIsAlone DEF MoveInto, Clean
    <3>1. UNCHANGED <<marker, fresh, legacyDir, occupied>>
      BY <2>17 DEF MoveInto
    <3>2. PICK f \in Items :
            /\ place' = IF place[f] = "legacy" THEN [place EXCEPT ![f] = "flat"] ELSE place
            /\ f \in proc[p].todo
            /\ \/ proc'[p].pc \in {"resolve", "enter"} /\ ~Outside(f)
               \/ proc'[p].pc = "relocate" /\ proc'[p].todo = proc[p].todo \ {f}
      BY <2>17, MoveIntoLists
    <3>3. place[f] = "legacy" /\ place' = [place EXCEPT ![f] = "flat"]
      BY <3>0, <3>2 DEF In
    <3>4. proc'[p].pc = "relocate" /\ proc'[p].todo = In("legacy") \ {f}
      BY <3>0, <3>2, <3>3 DEF Outside
    <3>5. In("legacy")' = In("legacy") \ {f}
      BY <3>3 DEF In
    <3>6. \A g \in Items : Outside(g)' = Outside(g)
      BY <3>3 DEF Outside
    <3>7. Clean(proc[p])'
      BY <3>4, <3>5 DEF Clean, Past, Through
    <3>8. Filling'
      BY <3>0, <3>1, <3>4, <3>5 DEF Filling
    <3>9. Fresh'
      BY <3>1, <3>6 DEF Fresh, Items
    <3>10. Pair'
      BY <3>0, <3>6 DEF Pair, Alone, Items
    <3>11. Marked'
      BY <3>0, <3>1 DEF Marked, NoMarker, Engine
    <3> QED BY <2>6, <3>0, <3>3, <3>7, <3>8, <3>9, <3>10, <3>11
  \* no file is in the old directory, and none gets there
  <2>18. ASSUME NEW p \in Procs, In("legacy") = {}, \A f \in Items : place'[f] = place[f]
         PROVE  /\ In("legacy")' = {} /\ Filling' /\ In("flat")' = In("flat")
                /\ \A f \in Items : Outside(f)' = Outside(f)
    BY <2>18 DEF In, Outside, Filling
  <2>19. ASSUME NEW p \in Procs, PointRecord(p) \/ Enter(p) \/ MigratedConfigure(p) \/ RemoveLegacy(p)
         PROVE  AllMovedInv'
    <3>0. Alone(p) /\ proc[p].pc \in {"point", "enter", "hop", "relocate"}
      BY <2>19, BusyIsAlone DEF PointRecord, Enter, MigratedConfigure, RemoveLegacy
    <3>1. In("legacy") = {} /\ \A f \in Items : place'[f] = place[f]
      <4>1. CASE RemoveLegacy(p)
        <5>1. In("legacy") = {}
          BY <4>1 DEF RemoveLegacy, Clean
        <5> QED BY <4>1, <5>1 DEF RemoveLegacy, In
      <4>2. CASE PointRecord(p) \/ Enter(p) \/ MigratedConfigure(p)
        BY <4>2 DEF PointRecord, Enter, MigratedConfigure, files, Clean, Past
      <4> QED BY <2>19, <4>1, <4>2
    <3>2. marker' = marker /\ fresh' \cap Data = fresh \cap Data
      BY <2>19 DEF PointRecord, Enter, MigratedConfigure, RemoveLegacy, files, Data
    <3>3. Fresh' /\ Marked'
      BY <2>18, <3>1, <3>2 DEF Fresh, Marked, Data, Items
    <3>4. Pair'
      BY <2>18, <3>0, <3>1 DEF Pair, Alone, Items
    <3>5. proc'[p].pc \in {"resolve", "enter", "load", "migrate", "point"}
      BY <2>19, QuietMoves
    <3>6. Clean(proc[p])'
      BY <2>18, <3>1, <3>5 DEF Clean, Through
    <3> QED BY <2>6, <2>18, <3>0, <3>1, <3>3, <3>4, <3>6
  <2>20. ASSUME NEW p \in Procs, Open(p) PROVE AllMovedInv'
    <3>0. /\ Alone(p) /\ proc[p].pc = "hop" /\ proc[p].at = Engine
          /\ place' = place /\ marker' = marker
          /\ fresh' = fresh \/ fresh' = fresh \cup ({"db"} \ {f \in Items : AtHome(f)})
      BY <2>20, BusyIsAlone DEF Open
    <3>1. In("legacy") = {} /\ Data \cap In("flat") = {}
      BY <3>0, ThroughStages DEF Clean, Past
    <3>2. \A f \in Data : ~Outside(f)
      BY <3>1 DEF In, Outside, Data, Items
    <3>3. Fresh' /\ Marked'
      BY <3>0, <3>2 DEF Fresh, Marked, Outside, In, Data
    <3>4. Pair'
      BY <3>0, <3>2 DEF Pair, Outside, Data
    <3>5. proc'[p].pc \in {"idle", "open"}
      BY <2>20, QuietMoves
    <3>6. Clean(proc[p])'
      BY <2>18, <3>0, <3>1, <3>5 DEF Clean, Through, Data
    <3> QED BY <2>6, <2>18, <3>0, <3>1, <3>3, <3>4, <3>6
  <2>21. ASSUME NEW p \in Procs,
                \/ Migrate(p) \/ KeysHop(p) \/ Empties(p) \/ Rewrites(p) \/ ColumnsHop(p)
                \/ ReshapeHop(p)
         PROVE  AllMovedInv'
    <3>0. /\ Alone(p) /\ proc[p].pc \in {"migrate", "hop", "edit", "rewrite"}
          /\ place' = place /\ marker' = marker /\ fresh' = fresh
      BY <2>21, BusyIsAlone DEF Migrate, KeysHop, Empties, Rewrites, ColumnsHop, HopFails, ReshapeHop, files
    <3>1. In("legacy") = {} /\ In("legacy")' = {} /\ Filling' /\ In("flat")' = In("flat")
      BY <2>18, <3>0 DEF Clean, Past
    <3>2. Fresh' /\ Marked'
      BY <3>0 DEF Fresh, Marked, Outside, In
    <3>3. Pair'
      BY <3>0 DEF Pair, Outside, Alone
    <3>4. Through(proc'[p]) \cap In("flat") = {}
      <4>1. CASE Migrate(p)
        <5>1. proc'[p].pc = "hop" /\ proc'[p].at = StorageVersion
          BY <4>1, ChainMoves
        <5>2. StorageVersion \in {0, 1, 2} \/ (StorageVersion = Engine /\ marker = Engine)
          BY DEF StorageVersion, Engine
        <5> QED BY <5>1, <5>2, ThroughStages DEF Marked
      <4>2. CASE KeysHop(p) \/ Empties(p) \/ Rewrites(p) \/ ColumnsHop(p)
        <5>1. proc'[p].pc \in {"edit", "rewrite", "mark"} /\ proc'[p].at \in {0, 1}
          BY <4>2, ChainMoves
        <5> QED BY <5>1, ThroughStages
      <4>3. CASE ReshapeHop(p)
        BY <4>3, ChainMoves, ThroughStages
      <4> QED BY <2>21, <4>1, <4>2, <4>3
    <3>5. /\ proc'[p].pc \in {"hop", "edit", "rewrite", "mark", "reshape"}
          /\ proc'[p].pc = "reshape" => proc'[p].file = "db"
      BY <2>21, ChainMoves
    <3>6. Clean(proc[p])'
      BY <3>1, <3>4, <3>5 DEF Clean, Through
    <3> QED BY <2>6, <3>0, <3>1, <3>2, <3>3, <3>6
  <2>22. ASSUME NEW p \in Procs, Mark(p) \/ TornMark(p) PROVE AllMovedInv'
    <3>0. /\ Alone(p) /\ proc[p].pc = "mark" /\ place' = place /\ fresh' = fresh
      BY <2>22, BusyIsAlone DEF Mark, TornMark
    <3>1. In("legacy") = {} /\ In("legacy")' = {} /\ Filling' /\ In("flat")' = In("flat")
      BY <2>18, <3>0 DEF Clean, Past
    <3>2. Fresh' /\ Pair'
      BY <3>0 DEF Fresh, Pair, Outside, Alone
    <3>3. Marked' /\ Through(proc'[p]) \cap In("flat") = {} /\ proc'[p].pc \in {"hop", "idle"}
      <4>1. CASE Mark(p)
        <5>1. /\ proc'[p].pc = "hop" /\ proc'[p].at = proc[p].at + 1 /\ marker' = proc[p].at + 1
              /\ proc[p].at \in 0 .. 2
          BY <4>1, ChainMoves DEF Mark
        <5>2. CASE proc[p].at = 2
          <6>1. Data \cap In("flat") = {}
            BY <3>0, <5>2, ThroughStages DEF Clean
          <6> QED BY <3>1, <5>1, <6>1 DEF Marked, Through, Data
        <5>3. CASE proc[p].at \in {0, 1}
          <6>1. proc'[p].at \in {1, 2} /\ marker' # Engine
            BY <5>1, <5>3 DEF Engine
          <6> QED BY <5>1, <6>1, ThroughStages DEF Marked
        <5> QED BY <5>1, <5>2, <5>3
      <4>2. CASE TornMark(p)
        <5>1. proc'[p].pc = "idle"
          BY <4>2, QuietMoves
        <5>2. marker' # Engine
          BY <4>2 DEF TornMark, Torn, Engine
        <5> QED BY <5>1, <5>2, ThroughStages DEF Marked
      <4> QED BY <2>22, <4>1, <4>2
    <3>4. Clean(proc[p])'
      BY <3>1, <3>3 DEF Clean, Through
    <3> QED BY <2>6, <3>0, <3>1, <3>2, <3>3, <3>4
  <2>23. ASSUME NEW p \in Procs, MoveNoClobber(p) PROVE AllMovedInv'
    <3> DEFINE f == proc[p].file
    <3>0. /\ Alone(p) /\ proc[p].pc = "reshape" /\ f \in Items /\ fresh' = fresh
          /\ proc'[p].at = 2 /\ marker' \in {marker, oldVersion}
      BY <2>23, BusyIsAlone, ReshapeMoves
    <3>1. \A g \in Items : \/ place'[g] = place[g]
                           \/ place'[g] = "home" /\ place[g] = "flat" /\ g = f
      BY <2>23, ReshapeMoves
    <3>2. In("legacy") = {}
      BY <3>0 DEF Clean, Past
    <3>3. In("legacy")' = {} /\ In("flat")' \subseteq In("flat")
          /\ \A g \in Items : Outside(g)' => Outside(g) /\ place[g] = "flat"
      BY <3>1, <3>2 DEF In, Outside
    <3>4. place'[f] # "flat" \/ f \in {"version", "log"}
      <4>1. CASE place[f] = "flat" /\ ~AtHome(f)
        BY <2>23, <4>1, ReshapeMoves
      <4>2. CASE place[f] = "flat" /\ AtHome(f) /\ f \notin {"version", "log"}
        BY <3>0, <4>2 DEF AtHome, Fresh, Outside, Data, Items
      <4> QED BY <3>0, <3>1, <4>1, <4>2
    <3>5. Fresh'
      BY <3>0, <3>3 DEF Fresh, Data, Items
    <3>6. Marked'
      BY <3>0, <3>3 DEF Marked, Engine
    <3>7. Filling'
      BY <3>3 DEF Filling
    <3>8. Through(proc[p]) \cap In("flat")' = {}
      BY <3>0, <3>3 DEF Clean
    <3>9. /\ Pair' /\ Through(proc'[p]) \cap In("flat")' = {}
          /\ proc'[p].pc = "mark" \/ (proc'[p].pc = "reshape" /\ proc'[p].file # "none")
      <4>1. CASE f = "db"
        <5>1. \A q \in Procs : ~(proc[q].pc = "reshape" /\ proc[q].file = "wal")
          BY <3>0, <4>1 DEF Alone
        <5>2. "db" \notin In("flat")' /\ proc'[p].pc = "reshape"
          BY <2>23, <3>4, <4>1, ReshapeMoves DEF In
        <5>3. CASE proc'[p].file = "wal"
          BY <5>2, <5>3, ThroughStages DEF Pair
        <5>4. CASE proc'[p].file = "config" /\ place' = place
          <6>1. ~Outside("db")
            BY <3>2, <5>2, <5>4 DEF In, Outside, Items
          <6>2. ~Outside("wal")
            BY <5>1, <6>1 DEF Pair
          <6>3. ~Outside("wal")'
            BY <5>4, <6>2 DEF Outside
          <6>4. "wal" \notin In("flat")'
            BY <6>3 DEF In, Outside
          <6> QED BY <5>2, <5>4, <6>3, <6>4, ThroughStages DEF Pair
        <5> QED BY <2>23, <4>1, <5>3, <5>4, ReshapeMoves
      <4>2. CASE f = "wal"
        <5>1. proc'[p].pc = "reshape" /\ proc'[p].file = "config"
          BY <2>23, <4>2, ReshapeMoves
        <5>2. {"db", "wal"} \cap In("flat")' = {}
          BY <3>0, <3>4, <3>8, <4>2, ThroughStages DEF In
        <5>3. ~Outside("wal")'
          BY <3>3, <5>2 DEF In, Outside, Items
        <5> QED BY <5>1, <5>2, <5>3, ThroughStages DEF Pair
      <4>3. CASE f \in {"config", "version", "log"}
        <5>1. /\ f = "config" => proc'[p].pc = "reshape" /\ proc'[p].file = "version"
              /\ f = "version" => proc'[p].pc = "reshape" /\ proc'[p].file = "log"
              /\ f = "log" => proc'[p].pc = "mark"
          BY <2>23, ReshapeMoves
        <5>2. Data \cap In("flat")' = {}
          BY <3>0, <3>4, <3>8, <4>3, ThroughStages DEF In, Data
        <5>3. ~Outside("wal")'
          BY <3>3, <5>2 DEF In, Outside, Items, Data
        <5> QED BY <3>0, <4>3, <5>1, <5>2, <5>3, ThroughStages DEF Pair
      <4> QED BY <3>0, <4>1, <4>2, <4>3 DEF Items
    <3>10. Clean(proc[p])'
      BY <3>3, <3>9 DEF Clean, Through
    <3>11. \A g \in Items : /\ place'[g] = "legacy" => place[g] = "legacy"
                            /\ place'[g] = "flat" => place[g] \in {"flat", "legacy"}
      BY <3>1
    <3> QED BY <2>6, <3>0, <3>5, <3>6, <3>7, <3>9, <3>10, <3>11
  <2> QED BY <1>2, <2>7, <2>8, <2>9, <2>10, <2>13, <2>14, <2>16, <2>17, <2>19, <2>20, <2>21, <2>22,
             <2>23 DEF Next
<1> QED BY <1>1, <1>2

\* The conjunction is inductive: it holds in every reachable state.
THEOREM MigrationInv == Spec => [](TypeInv /\ KeptInv /\ ShapeInv /\ AllMovedInv)
<1>1. Init => TypeInv /\ KeptInv /\ ShapeInv /\ AllMovedInv
  BY TypeInit, KeptInit, RunInit
<1>2. TypeInv /\ KeptInv /\ ShapeInv /\ AllMovedInv /\ [Next]_vars
        => (TypeInv /\ KeptInv /\ ShapeInv /\ AllMovedInv)'
  BY TypeStep, KeptStep, ShapeStep, AllMovedStep
<1> QED BY <1>1, <1>2, PTL DEF Spec

\* A runner whose commands were given one at a time works on files every hop has been
\* applied to, whatever died on the way and whatever the marker says, but for a file the
\* accident has spoilt: its hop could not read it, or a command died while it wrote it.
THEOREM ShapeIsCurrent == Spec => []CurrentShape
<1>1. ShapeInv => CurrentShape
  BY DEF ShapeInv, Tells, Current, CurrentShape
<1> QED BY <1>1, MigrationInv, PTL

\* Without one of the four accidents a runner works on the user's old queue, with its
\* write-ahead log, and on his old configuration. The old log of the runner is not among them.
THEOREM NothingShadowed == Spec => []NotShadowed
<1>1. AllMovedInv => NotShadowed
  <2> SUFFICES ASSUME AllMovedInv, Leaves \cap mishaps = {}, NEW p \in Procs,
                      NEW f \in {"db", "wal", "config"}, proc[p].pc = "open"
               PROVE  ~Outside(f)
    BY DEF NotShadowed
  <2>1. f \in Data /\ f \in Items
    BY DEF Items, Data
  <2>2. In("legacy") = {} /\ Data \cap In("flat") = {}
    BY ThroughStages DEF AllMovedInv, Past
  <2> QED BY <2>1, <2>2 DEF In, Outside
<1> QED BY <1>1, MigrationInv, PTL
=============================================================================
