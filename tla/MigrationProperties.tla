------------------------- MODULE MigrationProperties -------------------------
EXTENDS Migration

\* The accidents that leave files outside of the subdirectories: two commands at once, a
\* relocation cut after its first move, a death between a database and its log, a write before
\* the migration.
Leaves == {"overlap", "cut_relocation", "cut_pair", "early_write"}

\* The variables keep their types.
TypeOK ==
  /\ place \in [Items -> {"none", "legacy", "flat", "home", "lost"}]
  /\ oldVersion \in 0 .. 2
  /\ marker \in 0 .. Torn
  /\ shape \in [{"db", "config"} -> {"old", "new", "gone"}]
  /\ fresh \subseteq {"db", "config", "log"}
  /\ legacyDir \in BOOLEAN /\ occupied \in BOOLEAN
  /\ record \in {"none", "legacy", "home"}
  /\ proc \in [Procs -> [pc : {"idle", "resolve", "relocate", "point", "enter", "migrate", "hop", "edit",
                               "rewrite", "reshape", "mark", "open", "load", "write"},
                         cmd : Commands \cup {"none"}, tries : 0 .. 2, todo : SUBSET Items,
                         at : 0 .. Engine, file : Items \cup {"none"}]]
  /\ used \in [commands : 0 .. MaxCommands, faults : 0 .. MaxFaults]
  /\ mishaps \subseteq Leaves \cup {"spoilt_db", "spoilt_config"}

\* No file of the old target is ever deleted: relocate_legacy_data removes the old directory
\* only when it holds nothing that is not in the data root, whatever fails, dies or runs beside.
OldKept == \A f \in Items : place[f] # "lost"

\* A runner whose commands were given one at a time works on files every hop has been applied
\* to, whatever died on the way and whatever the marker says (run_migrations, storage_version),
\* but for the accident that spoils one: the queue when its hop could not read it, the
\* configuration when its hop could not read it or a command died between emptying and writing
\* it. Those nobody is told of, and the marker goes on.
CurrentShape ==
  "overlap" \notin mishaps =>
    \A p \in Procs, f \in {"db", "config"} :
      proc[p].pc = "open" /\ place[f] = "home" => shape[f] = "new" \/ Spoils[f] \in mishaps

\* Only four accidents leave a runner beside its user's queue or configuration. After any other
\* death, torn or missed file, torn marker or repetition it works on the old ones. The old log is
\* not among them: every `run` leaves it aside.
NotShadowed ==
  Leaves \cap mishaps = {} =>
    \A p \in Procs, f \in {"db", "wal", "config"} : proc[p].pc = "open" => ~Outside(f)

\* "0.21.0 moves every repo's data OUT of the target into the app home and SPLITS the old flat
\* storage dir into single-purpose subdirs" (m_0_20_0__0_21_0.py:3-4). Violated by the code:
\* `run` has made its log before the hop would move the old one there.
OldLogMoved == \A p \in Procs : proc[p].pc = "open" => place["log"] \in {"none", "home"}

\* "0.21.0 moves every repo's data OUT of the target into the app home and SPLITS the old flat
\* storage dir into single-purpose subdirs" (m_0_20_0__0_21_0.py:3-4): a runner that has
\* migrated works on the old configuration. `add` writes a default one first, which the hop
\* does not clobber.
OldConfigUsed ==
  \A p \in Procs : proc[p].pc = "open" => place["config"] \in {"none", "home"}

\* "move them alongside so a reopened db never hits a stale/missing sidecar"
\* (m_0_20_0__0_21_0.py:80-81): a database in use has its write-ahead log.
SidecarFollows ==
  \A p \in Procs : proc[p].pc = "open" /\ place["db"] = "home" => ~Outside("wal")
=============================================================================
