---------------------------- MODULE TrackerSync ----------------------------
(***************************************************************************)
(* How what people do on the tracker becomes work: a poll copies the       *)
(* remote tracker into the mirror (TrackingLocal.sync_from_remote),        *)
(* returns what differed, and scheduling/sync_to_db.py turns each          *)
(* difference into a task of the control lane.                             *)
(*                                                                         *)
(* The remote is written while it is being read: by people, by the web     *)
(* console, by agents.  It is another local database ("local", several     *)
(* SELECTs outside a transaction) or a hosted service ("hosted", an HTTP   *)
(* request per entry, and per thread of comments).  The mirror is written  *)
(* in one transaction, after everything was read.                          *)
(***************************************************************************)
EXTENDS TrackerStore

CONSTANTS
  Entries, Comments, Reactions, Pulls, Labels,
  Seed,        \* what both trackers hold at the start
  Providers,   \* the kinds of remote a behaviour may have
  Platform,    \* the comments the platform itself writes
  Coarse,      \* the remote's clock may show the same time to two writes
  MaxWrites,   \* bound on writes to the remote
  MaxFaults    \* bound on crashes and failed requests

Stages == {"idle", "labels", "relations", "rows", "list", "ready"}  \* of a poll
Row    == [open: BOOLEAN, rev: Nat, stamp: Nat]

\* Both trackers hold a store whose rows were written before the clock starts; a poll that
\* reads an entry is at that entry, and ids tell entries from comments.
ASSUME SyncAssumption ==
  /\ Providers \subseteq {"local", "hosted"}
  /\ Platform \subseteq Comments
  /\ Coarse \in BOOLEAN
  /\ {MaxWrites, MaxFaults} \subseteq Nat
  /\ IsStore(Seed) /\ ForeignKeys(Seed)
  /\ DOMAIN Seed.entries \subseteq Entries /\ DOMAIN Seed.comments \subseteq Comments
  /\ \A e \in DOMAIN Seed.entries : Seed.entries[e] \in Row /\ Seed.entries[e].stamp = 0
  /\ Entries \cap (Comments \cup Stages) = {}

VARIABLES
  provider,  \* the kind of the remote, which never changes
  remote,    \* the tracker people see
  mirror,    \* the local copy
  clock,     \* the remote's clock: the number of writes so far, and the time it shows
  born,      \* the ids the remote has handed out
  toggling,  \* the web console removed a reaction and has not touched these entries yet
  poll,      \* the poll in progress: what it has read of the remote; "todo" are the
             \* entries it has still to get, and in the end those whose threads it compares
  changes,   \* what the poll returned and sync_to_db has not taken up
  queue,     \* the pending tasks of the control lane
  told,      \* history: the entries and comments a poll reported as new
  lost,      \* history: changes a crash took away
  faults     \* what is left of MaxFaults

remoteVars == <<remote, clock, born, toggling>>
vars       == <<provider, remoteVars, mirror, poll, changes, queue, told, lost, faults>>

----------------------------------------------------------------------------
(* What people, agents and the web console do on the remote *)

\* ids are never reused: AUTOINCREMENT
Ids(s) == UNION {DOMAIN s[f] : f \in {"entries", "comments", "reactions", "entryReactions",
                                      "pulls", "pullComments", "pullReactions"}}

\* TrackingLocal's clock never shows the same time twice; a hosted one may.
Nows ==
  [rev: {clock.writes + 1},
   stamp: {clock.time + 1} \cup IF Coarse /\ clock.writes > 0 THEN {clock.time} ELSE {}]

\* A write at "now" that hands out the ids "ids"; a poll may be under way.
Wrote(now, ids) ==
  /\ clock.writes < MaxWrites /\ clock' = [writes |-> now.rev, time |-> now.stamp]
  /\ ids \cap born = {} /\ born' = born \cup ids
  /\ UNCHANGED <<provider, mirror, poll, changes, queue, told, lost, faults>>

PostEntry ==
  \E e \in Entries, ls \in SUBSET (Labels \ born), now \in Nows :
    remote' = AddEntry(remote, e, ls, now) /\ Wrote(now, {e}) /\ UNCHANGED toggling

PostComment ==
  \E e \in DOMAIN remote.entries, c \in Comments, now \in Nows :
    remote' = AddEntryComment(remote, e, c, now) /\ Wrote(now, {c}) /\ UNCHANGED toggling

React ==
  \E r \in Reactions, now \in Nows :
    /\ \/ \E c \in DOMAIN remote.comments : remote' = AddCommentReaction(remote, c, r, now)
       \/ \E e \in DOMAIN remote.entries : remote' = AddEntryReaction(remote, e, r, now)
    /\ Wrote(now, {r}) /\ UNCHANGED toggling

ChangeEntry ==
  \E e \in DOMAIN remote.entries, now \in Nows :
    /\ \/ remote' = EditEntry(remote, e, now)
       \/ remote' = SetEntryState(remote, e, ~remote.entries[e].open, now)
       \/ remote' = DeleteEntry(remote, e)
    /\ Wrote(now, {}) /\ UNCHANGED toggling

Relabel ==
  \E e \in DOMAIN remote.entries, l \in Labels \ born, now \in Nows :
    /\ remote' = IF l \in LabelsFor(remote, e) THEN RemoveEntryLabel(remote, e, l, now)
                                               ELSE AddEntryLabel(remote, e, l, now)
    /\ Wrote(now, {}) /\ UNCHANGED toggling

\* Seeding: labels are created, permanent posts pinned; on request labels are
\* pruned, and a pruned label is not used again.
Reseed ==
  \E now \in Nows :
    /\ \/ \E l \in Labels \ (remote.labels \cup born) :
            remote' = CreateLabel(remote, l) /\ Wrote(now, {})
       \/ \E l \in remote.labels : remote' = DeleteLabel(remote, l) /\ Wrote(now, {l})
       \/ \E e \in DOMAIN remote.entries \ remote.pins :
            remote' = PinEntry(remote, e) /\ Wrote(now, {})
    /\ UNCHANGED toggling

PostPull ==
  \E p \in Pulls, ls \in SUBSET (Labels \ born), now \in Nows :
    remote' = AddPull(remote, p, ls, now) /\ Wrote(now, {p}) /\ UNCHANGED toggling

ChangePull ==
  \E now \in Nows :
    /\ \/ \E p \in DOMAIN remote.pulls :
            remote' = SetPullClosed(remote, p, now) /\ Wrote(now, {})
       \/ \E p \in DOMAIN remote.pulls, c \in Comments :
            remote' = AddPullComment(remote, p, c, now) /\ Wrote(now, {c})
       \/ \E c \in DOMAIN remote.pullComments, r \in Reactions :
            remote' = AddPullCommentReaction(remote, c, r, now) /\ Wrote(now, {r})
    /\ UNCHANGED toggling

\* The web console takes back a reaction: the row goes in one transaction ...
Unreact ==
  /\ provider = "local"
  /\ \E now \in Nows, r \in Reactions :
       /\ \/ /\ r \in DOMAIN remote.reactions
             /\ remote' = [remote EXCEPT !.reactions = Keep(@, (DOMAIN @) \ {r})]
             /\ toggling' = toggling \cup {remote.comments[remote.reactions[r].on].on}
          \/ /\ r \in DOMAIN remote.entryReactions
             /\ remote' = [remote EXCEPT !.entryReactions = Keep(@, (DOMAIN @) \ {r})]
             /\ toggling' = toggling \cup {remote.entryReactions[r].on}
       /\ Wrote(now, {})

\* ... and the entry is touched in another.
TouchAfter ==
  \E e \in toggling :
    LET now == [rev |-> clock.writes, stamp |-> clock.time + 1] IN
    /\ toggling' = toggling \ {e}
    /\ clock' = [clock EXCEPT !.time = now.stamp]
    /\ remote' = IF e \in DOMAIN remote.entries THEN Touch(remote, e, now) ELSE remote
    /\ UNCHANGED <<provider, born, mirror, poll, changes, queue, told, lost, faults>>

People == \/ PostEntry \/ PostComment \/ React \/ ChangeEntry \/ Relabel
          \/ Reseed \/ PostPull \/ ChangePull \/ Unreact

----------------------------------------------------------------------------
(* A poll reads the remote: one action per read, and writes in between *)

Idle == [at |-> "idle", snap |-> EmptyStore, todo |-> {}]

Read(at, snap, todo) ==
  /\ poll' = [at |-> at, snap |-> snap, todo |-> todo]
  /\ UNCHANGED <<provider, remoteVars, mirror, changes, queue, told, lost, faults>>

\* the rows of "new" beside those of "old"
Overlay(old, new) ==
  [x \in (DOMAIN old) \cup (DOMAIN new) |-> IF x \in DOMAIN new THEN new[x] ELSE old[x]]

\* "snap" with the comments on entries "es" and the reactions on both, as they are now
WithThreads(snap, es) ==
  LET cs == RowsOn(remote.comments, es) IN
  [snap EXCEPT
     !.comments       = Overlay(@, Keep(remote.comments, cs)),
     !.reactions      = Overlay(@, Keep(remote.reactions, RowsOn(remote.reactions, cs))),
     !.entryReactions = Overlay(@, Keep(remote.entryReactions,
                                        RowsOn(remote.entryReactions, es)))]

WithPullThreads(snap, ps) ==
  LET cs == RowsOn(remote.pullComments, ps) IN
  [snap EXCEPT
     !.pullComments  = Keep(remote.pullComments, cs),
     !.pullReactions = Keep(remote.pullReactions, RowsOn(remote.pullReactions, cs))]

\* a store with no threads but those on entries "es"
OnlyThreads(s, es) ==
  LET cs == RowsOn(s.comments, es) IN
  [s EXCEPT !.comments       = Keep(@, cs),
            !.reactions      = Keep(@, RowsOn(@, cs)),
            !.entryReactions = Keep(@, RowsOn(@, es))]

BugChanged(snap) ==
  {e \in DOMAIN snap.entries :
     e \notin DOMAIN mirror.entries \/ mirror.entries[e].rev # snap.entries[e].rev}

\* Entries whose threads the poll compares: new ones, those whose updated_at,
\* labels or pin differ, and those that are gone.
Changed(snap) ==
  LET Differ(f) == (snap[f] \ mirror[f]) \cup (mirror[f] \ snap[f]) IN
  {e \in DOMAIN snap.entries :
     e \notin DOMAIN mirror.entries \/ mirror.entries[e].stamp # snap.entries[e].stamp}
  \cup {tag[1] : tag \in Differ("tags")}
  \cup Differ("pins")
  \cup (DOMAIN mirror.entries \ DOMAIN snap.entries)

\* The local remote: SELECTs one after the other, each of what is committed then.
ReadLabels ==
  /\ provider = "local" /\ poll = Idle /\ changes = {}
  /\ Read("labels", [EmptyStore EXCEPT !.labels = remote.labels], {})

ReadRelations ==
  /\ poll.at = "labels"
  /\ Read("relations", [poll.snap EXCEPT !.tags = remote.tags, !.pins = remote.pins,
                                         !.pullTags = remote.pullTags], {})

ReadRows ==
  /\ poll.at = "relations"
  /\ Read("rows", WithPullThreads([poll.snap EXCEPT !.entries = remote.entries,
                                                    !.pulls   = remote.pulls],
                                  DOMAIN remote.pulls), {})

ReadChangedThreads ==
  /\ poll.at = "rows"
  /\ LET changed == Changed(poll.snap) IN
     Read("ready", WithThreads(poll.snap, changed), changed)

\* A hosted remote: the labels and the list of entries, then each entry and its
\* thread, then the pull requests.
ListEntries ==
  /\ provider = "hosted" /\ poll = Idle /\ changes = {}
  /\ Read("list", [EmptyStore EXCEPT !.labels = remote.labels], DOMAIN remote.entries)

\* the entry, with the labels it carries, before its comments and reactions
GetEntry ==
  /\ poll.at = "list"
  /\ \E e \in poll.todo \cap DOMAIN remote.entries :
       LET ls == LabelsFor(remote, e) IN
       Read(e, [poll.snap EXCEPT !.entries = Put(@, e, remote.entries[e]),
                                 !.tags    = @ \cup ({e} \X ls),
                                 !.labels  = @ \cup ls], poll.todo \ {e})

GetThread ==
  /\ poll.at \in DOMAIN remote.entries
  /\ Read("list", WithThreads(poll.snap, {poll.at}), poll.todo)

\* of the threads read before, only those of changed entries go on
GetPulls ==
  /\ poll.at = "list" /\ poll.todo = {}
  /\ LET all == WithPullThreads(
                  [poll.snap EXCEPT !.pulls    = remote.pulls,
                                    !.pullTags = remote.pullTags,
                                    !.labels   = @ \cup {t[2] : t \in remote.pullTags}],
                  DOMAIN remote.pulls)
         changed == Changed(all)
     IN Read("ready", OnlyThreads(all, changed), changed)

Abort ==
  /\ poll' = Idle
  /\ UNCHANGED <<provider, remoteVars, mirror, changes, queue, told, lost>>

\* An entry that went between the list and its own request fails the poll.
EntryGone ==
  /\ \/ poll.at = "list" /\ poll.todo \ DOMAIN remote.entries # {}
     \/ poll.at \in Entries \ DOMAIN remote.entries
  /\ Abort /\ UNCHANGED faults

RequestFails ==
  /\ poll # Idle /\ faults > 0 /\ faults' = faults - 1
  /\ Abort

----------------------------------------------------------------------------
(* A poll writes the mirror *)

\* the rows of "source" that "target" lacks or has with another updated_at
Copied(source, target) ==
  Overlay(target, Keep(source, {x \in DOMAIN source :
                                  x \notin DOMAIN target \/ target[x].stamp # source[x].stamp}))

\* The inserts and updates, table after table; each maps a store to a store.
SyncLabels(s, snap) == [s EXCEPT !.labels = @ \cup snap.labels]

SyncEntries(s, snap) == [s EXCEPT !.entries = Copied(snap.entries, @)]

SyncEntryLabels(s, snap) == [s EXCEPT !.tags = @ \cup snap.tags, !.pins = @ \cup snap.pins]

SyncComments(s, snap) == [s EXCEPT !.comments = Copied(snap.comments, @)]

\* reactions carry no time: every row is compared
SyncReactions(s, snap) ==
  [s EXCEPT !.reactions      = Overlay(@, snap.reactions),
            !.entryReactions = Overlay(@, snap.entryReactions)]

SyncPullRequests(s, snap) ==
  [s EXCEPT !.pulls = Copied(snap.pulls, @), !.pullTags = @ \cup snap.pullTags]

SyncPullThreads(s, snap) ==
  [s EXCEPT !.pullComments  = Copied(snap.pullComments, @),
            !.pullReactions = Overlay(@, snap.pullReactions)]

Filled(snap) ==
  LET entries == SyncEntryLabels(SyncEntries(SyncLabels(mirror, snap), snap), snap)
      threads == SyncReactions(SyncComments(entries, snap), snap) IN
  SyncPullThreads(SyncPullRequests(threads, snap), snap)

BugRemoved(snap, es) ==
  [f \in {"comments", "reactions", "entryReactions"} |-> DOMAIN mirror[f] \ DOMAIN snap[f]]

\* what the mirror has on the entries "es", which were compared, and the remote no longer
Removed(snap, es) ==
  LET ours == OnlyThreads(mirror, es) IN
  [f \in {"comments", "reactions", "entryReactions"} |-> DOMAIN ours[f] \ DOMAIN snap[f]]

Pruned(s, snap, es) ==
  LET gone       == Removed(snap, es)
      Without(f) == Keep(s[f], (DOMAIN s[f]) \ gone[f]) IN
  Cascade([s EXCEPT !.labels         = snap.labels,
                    !.entries        = Keep(@, DOMAIN snap.entries),
                    !.tags           = snap.tags,
                    !.pins           = snap.pins,
                    !.comments       = Without("comments"),
                    !.reactions      = Without("reactions"),
                    !.entryReactions = Without("entryReactions"),
                    !.pulls          = Keep(@, DOMAIN snap.pulls),
                    !.pullTags       = snap.pullTags,
                    !.pullComments   = Keep(@, DOMAIN snap.pullComments),
                    !.pullReactions  = Keep(@, DOMAIN snap.pullReactions)])

----------------------------------------------------------------------------
(* What the poll reports, in the order sync_to_db takes it up *)

Change(rank, type, act, id, post) ==
  [rank |-> rank, type |-> type, act |-> act, id |-> id, post |-> post]

EntryChanges(snap) ==
  LET old == mirror.entries  new == snap.entries
      both == {e \in DOMAIN new \cap DOMAIN old : new[e].stamp # old[e].stamp} IN
       {Change(1, "entry", "create", e, e) : e \in DOMAIN new \ DOMAIN old}
  \cup {Change(1, "entry", "update", e, e) : e \in {d \in both : new[d].rev # old[d].rev}}
  \cup {Change(2, "entry", IF new[e].open THEN "open" ELSE "close", e, e) :
          e \in {d \in both : new[d].open # old[d].open}}
  \cup {Change(9, "entry", "delete", e, e) : e \in DOMAIN old \ DOMAIN new}

LabelChanges(snap) ==
       {Change(3, "label", "create", t, t[1]) : t \in snap.tags \ mirror.tags}
  \cup {Change(8, "label", "delete", t, t[1]) : t \in mirror.tags \ snap.tags}

BugThreadChanges(snap, es) ==
  {Change(4, "comment", "create", c, snap.comments[c].on) :
     c \in RowsOn(snap.comments, DOMAIN mirror.entries) \ DOMAIN mirror.comments}

\* A reaction on a comment is filed under the comment.
ThreadChanges(snap, es) ==
  LET New(f) == DOMAIN snap[f] \ DOMAIN mirror[f]
      gone   == Removed(snap, es) IN
       {Change(4, "comment", "create", c, snap.comments[c].on) : c \in New("comments")}
  \cup {Change(5, "reaction", "create", r, snap.reactions[r].on) : r \in New("reactions")}
  \cup {Change(5, "entryReaction", "create", r, snap.entryReactions[r].on) :
          r \in New("entryReactions")}
  \cup {Change(7, "reaction", "delete", r, mirror.reactions[r].on) : r \in gone.reactions}
  \cup {Change(7, "entryReaction", "delete", r, mirror.entryReactions[r].on) :
          r \in gone.entryReactions}

Differences(snap, es) ==
  EntryChanges(snap) \cup LabelChanges(snap) \cup ThreadChanges(snap, es)

\* One transaction, rolled back when a row's parent was not read.
Commit ==
  /\ poll.at = "ready"
  /\ poll' = Idle
  /\ IF ForeignKeys(Filled(poll.snap))
     THEN /\ mirror'  = Pruned(Filled(poll.snap), poll.snap, poll.todo)
          /\ changes' = Differences(poll.snap, poll.todo)
          /\ told'    = told \cup {c.id : c \in {d \in changes' : d.type \in {"entry", "comment"}
                                                                 /\ d.act = "create"}}
     ELSE UNCHANGED <<mirror, changes, told>>
  /\ UNCHANGED <<provider, remoteVars, queue, lost, faults>>

----------------------------------------------------------------------------
(* Changes become tasks, tasks are handled *)

Task(c) == [type |-> c.type, id |-> c.id, post |-> c.post, act |-> c.act]

BugSuperseded(c) == {t \in queue : t.id = c.id /\ t.act = c.act}

\* a task takes the place of the pending ones about the same resource
Superseded(c) == {t \in queue : t.type = c.type /\ t.id = c.id}

Teardown(c) == c.type = "entry" /\ c.act \in {"close", "delete"}

\* A closed or deleted entry loses its pending tasks, and the reactions filed under its
\* comments as far as the mirror still has them.
Swept(e) ==
  {t \in queue : \/ t.post = e
                 \/ t.type = "reaction" /\ t.post \in RowsOn(mirror.comments, {e})}

Deliver ==
  \E c \in changes :
    /\ \A d \in changes : c.rank <= d.rank
    /\ changes' = changes \ {c}
    /\ queue' = IF Teardown(c) THEN queue \ Swept(c.id)
                ELSE IF c.type = "comment" /\ c.id \in Platform THEN queue
                ELSE (queue \ Superseded(c)) \cup {Task(c)}
    /\ UNCHANGED <<provider, remoteVars, mirror, poll, told, lost, faults>>

\* The control lane, module Scheduler, takes a task between two polls.
Handle ==
  \E t \in queue :
    /\ poll = Idle /\ changes = {}
    /\ queue' = queue \ {t}
    /\ UNCHANGED <<provider, remoteVars, mirror, poll, changes, told, lost, faults>>

\* The runner dies; the mirror and the queue are files.
Crash ==
  /\ poll # Idle \/ changes # {}
  /\ faults > 0 /\ faults' = faults - 1
  /\ poll' = Idle /\ changes' = {} /\ lost' = lost \cup {c.id : c \in changes}
  /\ UNCHANGED <<provider, remoteVars, mirror, queue, told>>

----------------------------------------------------------------------------

Init ==
  /\ provider \in Providers
  /\ remote = Seed /\ mirror = Seed
  /\ clock = [writes |-> 0, time |-> 0]
  /\ born = Ids(Seed)
  /\ toggling = {} /\ poll = Idle /\ changes = {} /\ queue = {}
  /\ told = {} /\ lost = {} /\ faults = MaxFaults

Poll == \/ ReadLabels \/ ReadRelations \/ ReadRows \/ ReadChangedThreads
        \/ ListEntries \/ GetEntry \/ GetThread \/ GetPulls \/ EntryGone \/ Commit

Next == People \/ TouchAfter \/ Poll \/ RequestFails \/ Deliver \/ Handle \/ Crash

\* The control loop is one thread that polls, delivers and drains for as long as it
\* runs, and in every state one of the three is enabled: infinitely many of its steps
\* are its weak fairness.  The console ends what it began.
Spec == Init /\ [][Next]_vars
             /\ []<><<Poll \/ Deliver \/ Handle>>_vars /\ WF_vars(TouchAfter)
=============================================================================
