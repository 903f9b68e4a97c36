------------------------------ MODULE Migration ------------------------------
(***************************************************************************)
(* How a target's data, kept inside the target before version 0.21, gets   *)
(* into its data root and into today's shape: the relocation every command *)
(* starts with (relocate.py), the chain of version hops (migrate.py and    *)
(* the m_*.py modules), and the commands that read or write the data root  *)
(* around them (specseed.py, executing/run.py, configure.py, the console). *)
(*                                                                         *)
(* Versions are numbered: 0 is the baseline, a missing marker; hop 0 -> 1  *)
(* renames keys of the configuration (m_0_11_0__0_12_0), hop 1 -> 2 adds   *)
(* columns to the queue (m_0_16_0__0_18_0), hop 2 -> 3 moves the flat      *)
(* files into their subdirectories (m_0_20_0__0_21_0). A file move is one  *)
(* step, a rename within one file system; writing a file empties it first; *)
(* a hop that cannot read its file says nothing and counts as applied; a   *)
(* process may die between any two steps.                                  *)
(***************************************************************************)
EXTENDS Naturals, FiniteSets

CONSTANTS Procs,        \* command line processes and requests to the console
          Targets,      \* what targets of earlier versions hold: sets of Items
          MaxCommands,  \* commands people give
          MaxFaults     \* deaths of a process, failed moves and failed reads

Items == {"db", "wal", "config", "version", "log"}

\* A write-ahead log is the log of a database.
ASSUME MigrationAssumption ==
  /\ {MaxCommands, MaxFaults} \subseteq Nat
  /\ Targets \subseteq {old \in SUBSET Items : "wal" \in old => "db" \in old}

VARIABLES place,      \* where each file of the old target is
          oldVersion, \* what its version.txt says, 0 when it has none
          marker,     \* content of config/version.txt: a version, Torn, or NoMarker
          shape,      \* content of an old file: in the shape of its version, reshaped, or gone
          fresh,      \* files the new code created in the subdirectories
          legacyDir,  \* whether <target>/.specseed exists
          occupied,   \* whether the data root holds a control file
          record,     \* what the registry says: "none", "legacy" or "home"
          proc,       \* the processes
          used,       \* commands given and faults suffered
          mishaps     \* history: which accidents have happened

files == <<place, oldVersion, marker, shape, fresh, legacyDir>>
vars == <<files, occupied, record, proc, used, mishaps>>

Engine == 3
NoMarker == Engine + 1
Torn == Engine + 2
Commands == {"run", "add", "configure"}
\* the accident that keeps a file from its hop
Spoils == [db |-> "spoilt_db", config |-> "spoilt_config"]
Idle == [pc |-> "idle", cmd |-> "none", tries |-> 0, todo |-> {}, at |-> 0, file |-> "none"]

\* Data written by the version the marker names, inside the target or nothing at all.
Init ==
  /\ oldVersion \in 0 .. 2
  /\ \E old \in Targets :
       /\ place = [f \in Items |-> IF f \in old THEN "legacy" ELSE "none"]
       /\ oldVersion > 0 <=> "version" \in old
       /\ legacyDir = (old # {})
  /\ shape = [db |-> IF oldVersion >= 2 THEN "new" ELSE "old",
              config |-> IF oldVersion >= 1 THEN "new" ELSE "old"]
  /\ marker = NoMarker
  /\ fresh = {}
  /\ occupied = FALSE
  /\ record \in IF legacyDir THEN {"none", "legacy"} ELSE {"none"}
  /\ proc = [p \in Procs |-> Idle]
  /\ used = [commands |-> 0, faults |-> 0]
  /\ mishaps = {}

\* the subdirectories have a file of that name, an old one or a new one
AtHome(f) == IF f = "version" THEN marker # NoMarker ELSE place[f] = "home" \/ f \in fresh
RootEmpty ==
  ~occupied /\ marker = NoMarker /\ fresh = {} /\ \A f \in Items : place[f] \in {"none", "legacy"}
Outside(f) == place[f] \in {"legacy", "flat"}
Busy(p) == proc[p].pc \notin {"idle", "open"}
Faulty == used.faults < MaxFaults /\ used' = [used EXCEPT !.faults = @ + 1]
GoesTo(p, pc) == proc' = [proc EXCEPT ![p].pc = pc]
Note(bad, what) == mishaps' = IF bad THEN mishaps \cup {what} ELSE mishaps

\* A person gives a command; the commands run side by side when two are given at once.
Command(p) ==
  /\ proc[p].pc = "idle" /\ used.commands < MaxCommands
  /\ \E c \in Commands :
       proc' = [proc EXCEPT ![p] =
         [Idle EXCEPT !.pc = "resolve", !.cmd = c, !.tries = IF c = "run" THEN 2 ELSE 1]]
  /\ used' = [used EXCEPT !.commands = @ + 1]
  /\ Note(\E q \in Procs : Busy(q), "overlap")
  /\ UNCHANGED <<files, occupied, record>>

(***************************************************************************)
(* Relocation                                                              *)
(***************************************************************************)

\* `run` resolves its paths and relocates once more in main; the others do it once.
Resolved(p) ==
  [proc[p] EXCEPT !.pc = IF @ # "resolve" /\ proc[p].tries = 2 THEN "resolve" ELSE "enter",
                  !.tries = 1]

\* The relocation only starts on a data root that is still empty.
Resolve(p) ==
  /\ proc[p].pc = "resolve"
  /\ proc' = [proc EXCEPT ![p] =
       IF legacyDir /\ RootEmpty
         THEN [@ EXCEPT !.pc = "relocate", !.todo = {f \in Items : place[f] = "legacy"}]
         ELSE Resolved(p)]
  /\ UNCHANGED <<files, occupied, record, used, mishaps>>

\* One file is moved, left alone when the data root has one of that name, or found missing:
\* then the relocation ends where it is.
MoveInto(p) ==
  /\ proc[p].pc = "relocate"
  /\ \E f \in proc[p].todo :
       /\ place' = IF place[f] = "legacy" THEN [place EXCEPT ![f] = "flat"] ELSE place
       /\ proc' = IF Outside(f) THEN [proc EXCEPT ![p].todo = @ \ {f}]
                                ELSE [proc EXCEPT ![p] = Resolved(p)]
  /\ UNCHANGED <<oldVersion, marker, shape, fresh, legacyDir, occupied, record, used, mishaps>>

\* A failed move is passed over and the relocation goes on.
BugMoveFails(p) ==
  /\ proc[p].pc = "relocate"
  /\ Faulty
  /\ \E f \in proc[p].todo : proc' = [proc EXCEPT ![p].todo = @ \ {f}]
  /\ Note(TRUE, "cut_relocation")
  /\ UNCHANGED <<files, occupied, record>>

\* A move fails: the command goes on with what is there.
MoveFails(p) ==
  /\ proc[p].pc = "relocate" /\ proc[p].todo # {}
  /\ Faulty
  /\ proc' = [proc EXCEPT ![p] = Resolved(p)]
  /\ Note(TRUE, "cut_relocation")
  /\ UNCHANGED <<files, occupied, record>>

\* Whatever is left in the old directory goes with it.
RemoveLegacy(p) ==
  /\ proc[p].pc = "relocate" /\ proc[p].todo = {}
  /\ legacyDir' = FALSE
  /\ place' = [f \in Items |-> IF place[f] = "legacy" THEN "lost" ELSE place[f]]
  /\ GoesTo(p, "point")
  /\ UNCHANGED <<oldVersion, marker, shape, fresh, occupied, record, used, mishaps>>

PointRecord(p) ==
  /\ proc[p].pc = "point"
  /\ record' = IF record = "legacy" THEN "home" ELSE record
  /\ proc' = [proc EXCEPT ![p] = Resolved(p)]
  /\ UNCHANGED <<files, occupied, used, mishaps>>

(***************************************************************************)
(* The version chain                                                       *)
(***************************************************************************)
\* `run` opens its log before it migrates; `add` is the one command that does not migrate.
Enter(p) ==
  /\ proc[p].pc = "enter"
  /\ GoesTo(p, IF proc[p].cmd = "add" THEN "load" ELSE "migrate")
  /\ fresh' = IF proc[p].cmd = "run" /\ ~AtHome("log") THEN fresh \cup {"log"} ELSE fresh
  /\ UNCHANGED <<place, oldVersion, marker, shape, legacyDir, occupied, record, used, mishaps>>

\* A reader of the marker that does not mind an empty file.
BugStorageVersion ==
  IF marker # NoMarker THEN marker ELSE IF place["version"] = "flat" THEN oldVersion ELSE 0

\* The marker in config/, else the flat one, else the baseline; an empty marker counts as none.
StorageVersion ==
  IF marker \in 0 .. Engine THEN marker
  ELSE IF place["version"] = "flat" THEN oldVersion ELSE 0

Migrate(p) ==
  /\ proc[p].pc = "migrate"
  /\ proc' = [proc EXCEPT ![p] = [@ EXCEPT !.pc = "hop", !.at = StorageVersion]]
  /\ UNCHANGED <<files, occupied, record, used, mishaps>>

\* A hop that cannot read its file returns as if it had nothing to do, and is marked.
HopFails(p, f) ==
  /\ place[f] = "flat" /\ Faulty
  /\ GoesTo(p, "mark")
  /\ Note(shape[f] # "new", Spoils[f])
  /\ UNCHANGED <<files, occupied, record>>

\* The hop that renames keys reads the flat configuration. It goes on when there are old keys,
\* and passes over a file that is not there or that is empty.
KeysHop(p) ==
  /\ proc[p].pc = "hop" /\ proc[p].at = 0
  /\ \/ /\ GoesTo(p, IF place["config"] = "flat" /\ shape["config"] = "old" THEN "edit" ELSE "mark")
        /\ UNCHANGED <<files, occupied, record, used, mishaps>>
     \/ HopFails(p, "config")

\* write_text empties the file it read; when somebody has moved that one meanwhile, it writes
\* a copy beside it ...
Empties(p) ==
  /\ proc[p].pc = "edit"
  /\ IF place["config"] = "flat"
       THEN shape' = [shape EXCEPT !["config"] = "gone"] /\ GoesTo(p, "rewrite")
       ELSE shape' = shape /\ GoesTo(p, "mark")
  /\ UNCHANGED <<place, oldVersion, marker, fresh, legacyDir, occupied, record, used, mishaps>>

\* ... and writes what it made of it.
Rewrites(p) ==
  /\ proc[p].pc = "rewrite"
  /\ shape' = [shape EXCEPT !["config"] = "new"]
  /\ GoesTo(p, "mark")
  /\ UNCHANGED <<place, oldVersion, marker, fresh, legacyDir, occupied, record, used, mishaps>>

\* A hop rewritten to look for its file where today's code keeps it.
BugColumnsHop(p) ==
  /\ proc[p].pc = "hop" /\ proc[p].at = 1
  /\ \/ /\ shape' = [shape EXCEPT !["db"] = IF place["db"] = "home" THEN "new" ELSE @]
        /\ GoesTo(p, "mark")
        /\ UNCHANGED <<place, oldVersion, marker, fresh, legacyDir, occupied, record, used, mishaps>>
     \/ HopFails(p, "db")

\* The hop that adds columns alters the flat database, where there is one.
ColumnsHop(p) ==
  /\ proc[p].pc = "hop" /\ proc[p].at = 1
  /\ \/ /\ shape' = [shape EXCEPT !["db"] = IF place["db"] = "flat" THEN "new" ELSE @]
        /\ GoesTo(p, "mark")
        /\ UNCHANGED <<place, oldVersion, marker, fresh, legacyDir, occupied, record, used, mishaps>>
     \/ HopFails(p, "db")

\* Hop 2 -> 3 moves file after file; a database's write-ahead log is moved right after the
\* database, and only then.
ReshapeHop(p) ==
  /\ proc[p].pc = "hop" /\ proc[p].at = 2
  /\ proc' = [proc EXCEPT ![p] = [@ EXCEPT !.file = "db", !.pc = "reshape"]]
  /\ UNCHANGED <<files, occupied, record, used, mishaps>>

\* A move that forgets the write-ahead log.
BugMoveNoClobber(p) ==
  LET f == proc[p].file
      moves == place[f] = "flat" /\ ~AtHome(f)
      next == CASE f = "db" -> "config" [] f = "config" -> "version" [] f = "version" -> "log"
                [] OTHER -> "none"
      stage == IF next = "none" THEN "mark" ELSE "reshape"
  IN /\ proc[p].pc = "reshape" /\ f # "none"
     /\ place' = IF moves THEN [place EXCEPT ![f] = "home"] ELSE place
     /\ marker' = IF f = "version" /\ moves THEN oldVersion ELSE marker
     /\ proc' = [proc EXCEPT ![p] = [@ EXCEPT !.file = next, !.pc = stage]]
     /\ UNCHANGED <<oldVersion, shape, fresh, legacyDir, occupied, record, used, mishaps>>

\* An existing file in the subdirectory is never overwritten.
MoveNoClobber(p) ==
  LET f == proc[p].file
      moves == place[f] = "flat" /\ ~AtHome(f)
      next == CASE f = "db" -> IF moves THEN "wal" ELSE "config"
                [] f = "wal" -> "config"
                [] f = "config" -> "version"
                [] f = "version" -> "log"
                [] OTHER -> "none"
      stage == IF next = "none" THEN "mark" ELSE "reshape"
  IN /\ proc[p].pc = "reshape" /\ f # "none"
     /\ place' = IF moves THEN [place EXCEPT ![f] = "home"] ELSE place
     /\ marker' = IF f = "version" /\ moves THEN oldVersion ELSE marker
     /\ proc' = [proc EXCEPT ![p] = [@ EXCEPT !.file = next, !.pc = stage]]
     /\ UNCHANGED <<oldVersion, shape, fresh, legacyDir, occupied, record, used, mishaps>>

\* The marker is written after its hop.
Mark(p) ==
  /\ proc[p].pc = "mark"
  /\ marker' = proc[p].at + 1
  /\ proc' = [proc EXCEPT ![p] = [@ EXCEPT !.pc = "hop", !.at = proc[p].at + 1]]
  /\ UNCHANGED <<place, oldVersion, shape, fresh, legacyDir, occupied, record, used, mishaps>>

\* write_text truncates the file and then writes it; the process dies in between.
TornMark(p) ==
  /\ proc[p].pc = "mark"
  /\ Faulty
  /\ marker' = Torn
  /\ proc' = [proc EXCEPT ![p] = Idle]
  /\ UNCHANGED <<place, oldVersion, shape, fresh, legacyDir, occupied, record, mishaps>>

(***************************************************************************)
(* What the commands do then                                               *)
(***************************************************************************)
\* The run opens its queue, or makes a new one; a second runner is refused.
Open(p) ==
  /\ proc[p].pc = "hop" /\ proc[p].at = Engine /\ proc[p].cmd = "run"
  /\ IF \E q \in Procs : proc[q].pc = "open"
       THEN proc' = [proc EXCEPT ![p] = Idle] /\ fresh' = fresh
       ELSE GoesTo(p, "open") /\ fresh' = fresh \cup ({"db"} \ {f \in Items : AtHome(f)})
  /\ UNCHANGED <<place, oldVersion, marker, shape, legacyDir, occupied, record, used, mishaps>>

Stop(p) ==
  /\ proc[p].pc = "open"
  /\ proc' = [proc EXCEPT ![p] = Idle]
  /\ UNCHANGED <<files, occupied, record, used, mishaps>>

MigratedConfigure(p) ==
  /\ proc[p].pc = "hop" /\ proc[p].at = Engine /\ proc[p].cmd = "configure"
  /\ GoesTo(p, "load")
  /\ UNCHANGED <<files, occupied, record, used, mishaps>>

\* The console adds a repository and sets it up; it neither relocates nor migrates.
ConsoleSetup(p) ==
  /\ proc[p].pc = "idle" /\ record # "legacy" /\ used.commands < MaxCommands
  /\ record' = "home"
  /\ proc' = [proc EXCEPT ![p] = [Idle EXCEPT !.pc = "load"]]
  /\ used' = [used EXCEPT !.commands = @ + 1]
  /\ Note(\E q \in Procs : Busy(q), "overlap")
  /\ UNCHANGED <<files, occupied>>

\* load_config: the configuration the data root has, or the default where it has none. `add`
\* has registered the repository before.
LoadConfig(p) ==
  /\ proc[p].pc = "load"
  /\ record' = IF proc[p].cmd = "add" /\ record = "none" THEN "home" ELSE record
  /\ proc' = [proc EXCEPT ![p] =
       [@ EXCEPT !.file = IF AtHome("config") THEN "config" ELSE "none", !.pc = "write"]]
  /\ UNCHANGED <<files, occupied, used, mishaps>>

\* What writing c to the configuration of the data root makes of the files: defaults over an
\* old one, moved there since, are the end of it.
Puts(c) ==
  /\ shape' = [shape EXCEPT !["config"] = IF place["config"] = "home" /\ c = "none" THEN "gone" ELSE @]
  /\ fresh' = IF AtHome("config") THEN fresh ELSE fresh \cup {"config"}
  /\ UNCHANGED <<place, oldVersion, marker, legacyDir>>
Early == ~AtHome("config") /\ \E f \in Items : Outside(f)

\* write_config_files
WriteConfig(p) ==
  /\ proc[p].pc = "write"
  /\ Puts(proc[p].file)
  /\ Note(Early, "early_write")
  /\ proc' = [proc EXCEPT ![p] = Idle]
  /\ UNCHANGED <<occupied, record, used>>

\* The process dies when it has emptied the file.
TornConfig(p) ==
  /\ proc[p].pc = "write"
  /\ Faulty
  /\ Puts("none")
  /\ mishaps' = mishaps \cup {m \in {"early_write"} : Early}
                       \cup {m \in {"spoilt_config"} : place["config"] = "home"}
  /\ proc' = [proc EXCEPT ![p] = Idle]
  /\ UNCHANGED <<occupied, record>>

\* Pause, resume or stop from outside leave a control file where the record says.
Signal ==
  /\ record = "home" /\ used.commands < MaxCommands
  /\ occupied' = TRUE
  /\ Note(RootEmpty /\ legacyDir, "early_write")
  /\ used' = [used EXCEPT !.commands = @ + 1]
  /\ UNCHANGED <<files, record, proc>>

\* A process dies, or one of the moves of hop 2 -> 3 raises and ends it.
Crash(p) ==
  /\ proc[p].pc # "idle"
  /\ Faulty
  /\ mishaps' = mishaps
       \cup {m \in {"cut_relocation"} : proc[p].pc = "relocate" /\ proc[p].todo # {} /\ ~RootEmpty}
       \cup {m \in {"cut_pair"} : proc[p].pc = "reshape" /\ proc[p].file = "wal" /\ place["wal"] = "flat"}
       \cup {m \in {"spoilt_config"} : proc[p].pc = "rewrite"}
  /\ proc' = [proc EXCEPT ![p] = Idle]
  /\ UNCHANGED <<files, occupied, record>>

Next ==
  \/ \E p \in Procs :
       \/ Command(p) \/ Resolve(p) \/ MoveInto(p) \/ MoveFails(p) \/ RemoveLegacy(p) \/ PointRecord(p)
       \/ Enter(p) \/ Migrate(p) \/ KeysHop(p) \/ Empties(p) \/ Rewrites(p) \/ ColumnsHop(p)
       \/ ReshapeHop(p) \/ MoveNoClobber(p) \/ Mark(p) \/ TornMark(p)
       \/ Open(p) \/ Stop(p) \/ MigratedConfigure(p) \/ ConsoleSetup(p)
       \/ LoadConfig(p) \/ WriteConfig(p) \/ TornConfig(p) \/ Crash(p)
  \/ Signal

Spec == Init /\ [][Next]_vars
=============================================================================
