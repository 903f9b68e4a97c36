------------------------- MODULE TrackerProperties -------------------------
(* What the polls of module TrackerSync must get right while people write. *)
EXTENDS TrackerSync

----------------------------------------------------------------------------
(* Invariants *)

\* the entry and everything in its thread
Thread(s, e) ==
  LET cs == RowsOn(s.comments, {e}) IN
  <<s.entries[e], Keep(s.comments, cs), Keep(s.reactions, RowsOn(s.reactions, cs)),
    Keep(s.entryReactions, RowsOn(s.entryReactions, {e}))>>

\* A poll skips the thread of an entry whose updated_at it has already
\* (_sync_entries), so equal times must mean equal threads, whatever was written
\* between its reads and whichever poll was cut off: else a comment or a reaction is
\* never seen.  Excepted are entries the web console is in the middle of touching.
StampsTell ==
  \A e \in (DOMAIN mirror.entries \cap DOMAIN remote.entries) \ toggling :
    mirror.entries[e].stamp = remote.entries[e].stamp => Thread(mirror, e) = Thread(remote, e)

\* what the mirror says of the resource of a task
Holds(t) ==
  CASE t.type = "entry"         -> t.id \in DOMAIN mirror.entries
    [] t.type = "label"         -> t.act = "create" <=> t.id \in mirror.tags
    [] t.type = "reaction"      -> t.act = "create" <=> t.id \in DOMAIN mirror.reactions
    [] t.type = "entryReaction" -> t.act = "create" <=> t.id \in DOMAIN mirror.entryReactions
    [] OTHER                    -> t.post \in DOMAIN mirror.entries

\* Once the changes of a poll are delivered, no pending task tells of a state the
\* mirror has left: superseding (_supersede) and teardown (_teardown_post) take away
\* every task that a later poll made stale, unless a crash took that poll's changes.
TasksCurrent ==
  changes = {} => \A t \in queue : {t.id, t.post} \cap lost = {} => Holds(t)

----------------------------------------------------------------------------
(* Action properties *)

\* No entry and no comment is reported as new by two polls: dispatch answers a new
\* comment by acting on it, so a second report would act twice.
ToldOnce ==
  [][\A c \in changes' \ changes :
       c.act = "create" /\ c.type \in {"entry", "comment"} => c.id \notin told]_vars

----------------------------------------------------------------------------
(* Liveness *)

\* A hosted remote's pins are not read.
Matches == mirror = IF provider = "local" THEN remote ELSE [remote EXCEPT !.pins = {}]

\* "Make this local database match another remote": once people stop writing, some
\* poll makes the mirror the remote, and it stays so.  Violated when the remote's
\* clock shows two writes the same time.
Converges == <>[]Matches

\* A comment no poll has reported yet comes to the queue, unless it goes or a crash
\* loses the change between the commit of the mirror and the queue (sync_to_db.py:78).
Heard ==
  \A c \in Comments \ (Ids(Seed) \cup Platform) :
    c \in DOMAIN remote.comments \ told ~>
       \/ \E t \in queue : t.id = c
       \/ c \in lost
       \/ c \notin DOMAIN remote.comments
=============================================================================
