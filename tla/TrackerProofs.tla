--------------------------- MODULE TrackerProofs ---------------------------
(***************************************************************************)
(* What the polls promise, proved for every seed, every set of ids and any *)
(* number of writes and faults.  The remote moves first: every write is    *)
(* shown to be one kind of step (RemoteMoved) that hands out fresh ids,    *)
(* keeps the rows it does not delete, and gives every entry whose thread   *)
(* it changes a new time.  What the mirror and a half-read poll know of    *)
(* the remote then survives any such step, and each read and the commit    *)
(* add to it.                                                              *)
(***************************************************************************)
EXTENDS TrackerProperties, TLAPS

----------------------------------------------------------------------------
(* Threads, and how two stores compare *)

On(s, e)    == {c \in DOMAIN s.comments : s.comments[c].on = e}
Marks(s, e) == {r \in DOMAIN s.reactions : s.reactions[r].on \in On(s, e)}
Likes(s, e) == {r \in DOMAIN s.entryReactions : s.entryReactions[r].on = e}

SameThread(s, t, e) ==
  On(s, e) = On(t, e) /\ Marks(s, e) = Marks(t, e) /\ Likes(s, e) = Likes(t, e)

Agree(f, g) == \A x \in (DOMAIN f) \cap (DOMAIN g) : f[x] = g[x]

\* a comment or a reaction the two stores both have is the same row
Alike(s, t) ==
  /\ Agree(s.comments, t.comments)
  /\ Agree(s.reactions, t.reactions)
  /\ Agree(s.entryReactions, t.entryReactions)

\* comments and reactions have what they are on
Rooted(s) ==
  /\ \A c \in DOMAIN s.comments : s.comments[c].on \in DOMAIN s.entries
  /\ \A r \in DOMAIN s.reactions : s.reactions[r].on \in DOMAIN s.comments
  /\ \A r \in DOMAIN s.entryReactions : s.entryReactions[r].on \in DOMAIN s.entries

\* "f" after a write that hands out the ids "ids": no row changes, and a new one is one of them
Grows(f, g, ids) ==
  Agree(f, g) /\ DOMAIN g \subseteq (DOMAIN f) \cup ids

\* What a write makes of the store "s": the entries it may have changed, rows or threads, are "es".
Moved(s, t, ids, es) ==
  /\ IsStore(t) /\ Rooted(t)
  /\ DOMAIN t.entries \subseteq (DOMAIN s.entries) \cup (ids \cap Entries)
  /\ DOMAIN t.comments \subseteq (DOMAIN s.comments) \cup (ids \cap Comments)
  /\ Grows(s.comments, t.comments, ids)
  /\ Grows(s.reactions, t.reactions, ids)
  /\ Grows(s.entryReactions, t.entryReactions, ids)
  /\ \A e \in (DOMAIN t.entries) \ es :
       e \in DOMAIN s.entries /\ t.entries[e] = s.entries[e] /\ SameThread(t, s, e)

----------------------------------------------------------------------------
(* The operations on a store *)

\* An operation that leaves entries and threads alone moves a store nowhere.
LEMMA StillMoved ==
  ASSUME NEW s, NEW t, NEW ids, Rooted(s), IsStore(t), t.entries = s.entries, t.comments = s.comments,
         t.reactions = s.reactions, t.entryReactions = s.entryReactions
  PROVE  Moved(s, t, ids, {})
BY DEF Moved, Rooted, Grows, Agree, SameThread, On, Marks, Likes

\* A write to the row of one entry touches that entry only.
LEMMA RowMoved ==
  ASSUME NEW s, NEW t, NEW ids, NEW e, NEW row, Rooted(s), IsStore(t),
         t.entries = [s.entries EXCEPT ![e] = row], t.comments = s.comments,
         t.reactions = s.reactions, t.entryReactions = s.entryReactions
  PROVE  Moved(s, t, ids, {e})
BY DEF Moved, Rooted, Grows, Agree, SameThread, On, Marks, Likes

\* A new time is all that Touch writes.
LEMMA Touched ==
  ASSUME NEW s, NEW e, NEW now, IsStore(s), e \in DOMAIN s.entries, s.entries[e] \in Row, now.stamp \in Nat
  PROVE  /\ IsStore(Touch(s, e, now))
         /\ Touch(s, e, now).entries = [s.entries EXCEPT ![e] = [s.entries[e] EXCEPT !.stamp = now.stamp]]
         /\ Touch(s, e, now).entries[e] \in Row /\ Touch(s, e, now).entries[e].stamp = now.stamp
         /\ Touch(s, e, now).comments = s.comments /\ Touch(s, e, now).reactions = s.reactions
         /\ Touch(s, e, now).entryReactions = s.entryReactions
BY DEF IsStore, Tables, Touch, Row

\* Deleting rows on a cascade keeps the entries, and of a thread what is rooted.
LEMMA CascadeRooted ==
  ASSUME NEW s, IsStore(s)
  PROVE  LET t == Cascade(s) IN
         /\ IsStore(t) /\ Rooted(t) /\ t.entries = s.entries
         /\ DOMAIN t.comments = {c \in DOMAIN s.comments : s.comments[c].on \in DOMAIN s.entries}
         /\ DOMAIN t.reactions = {r \in DOMAIN s.reactions : s.reactions[r].on \in DOMAIN t.comments}
         /\ DOMAIN t.entryReactions =
              {r \in DOMAIN s.entryReactions : s.entryReactions[r].on \in DOMAIN s.entries}
         /\ Agree(t.comments, s.comments) /\ Agree(t.reactions, s.reactions)
         /\ Agree(t.entryReactions, s.entryReactions)
<1> DEFINE t == Cascade(s)
<1>1. /\ IsStore(t) /\ t.entries = s.entries
      /\ t.comments = Owned(s.comments, DOMAIN s.entries)
      /\ t.reactions = Owned(s.reactions, DOMAIN t.comments)
      /\ t.entryReactions = Owned(s.entryReactions, DOMAIN s.entries)
  BY DEF IsStore, Tables, Cascade
<1> HIDE DEF t
<1> QED BY <1>1 DEF t, Owned, Keep, Rooted, Agree

\* A new entry.
LEMMA AddEntryMoved ==
  ASSUME NEW s, NEW e \in Entries, NEW ls, NEW now, IsStore(s), Rooted(s),
         e \notin DOMAIN s.entries, now.rev \in Nat, now.stamp \in Nat
  PROVE  LET t == AddEntry(s, e, ls, now) IN
         /\ Moved(s, t, {e}, {e})
         /\ t.entries[e] \in Row /\ t.entries[e].stamp = now.stamp
<1> DEFINE t == AddEntry(s, e, ls, now)
<1>1. /\ IsStore(t) /\ t.entries = Put(s.entries, e, NewRow(now)) /\ t.comments = s.comments
      /\ t.reactions = s.reactions /\ t.entryReactions = s.entryReactions
  BY DEF IsStore, Tables, AddEntry
<1>2. NewRow(now) \in Row /\ NewRow(now).stamp = now.stamp
  BY DEF NewRow, Row
<1> HIDE DEF t
<1>3. /\ DOMAIN t.entries = (DOMAIN s.entries) \cup {e}
      /\ t.entries[e] = NewRow(now)
      /\ \A x \in DOMAIN s.entries : t.entries[x] = s.entries[x]
  BY <1>1 DEF Put
<1>4. Moved(s, t, {e}, {e})
  BY <1>1, <1>3 DEF Moved, Rooted, Grows, Agree, SameThread, On, Marks, Likes
<1> QED BY <1>2, <1>3, <1>4 DEF t

\* A new title, or a new state.
LEMMA EditMoved ==
  ASSUME NEW s, NEW e, NEW now, NEW open \in BOOLEAN, IsStore(s), Rooted(s),
         e \in DOMAIN s.entries, s.entries[e] \in Row, now.rev \in Nat, now.stamp \in Nat
  PROVE  \A t \in {EditEntry(s, e, now), SetEntryState(s, e, open, now)} :
           /\ Moved(s, t, {}, {e})
           /\ t.entries[e] \in Row /\ t.entries[e].stamp = now.stamp
<1> DEFINE edited == [s.entries[e] EXCEPT !.rev = now.rev, !.stamp = now.stamp]
           set    == [s.entries[e] EXCEPT !.open = open, !.stamp = now.stamp]
<1>1. edited \in Row /\ edited.stamp = now.stamp
  BY DEF Row
<1>2. set \in Row /\ set.stamp = now.stamp
  BY DEF Row
<1>3. LET t == EditEntry(s, e, now) IN
      /\ IsStore(t) /\ t.entries = [s.entries EXCEPT ![e] = edited] /\ t.comments = s.comments
      /\ t.reactions = s.reactions /\ t.entryReactions = s.entryReactions
  BY DEF IsStore, Tables, EditEntry, Touch, Row
<1>4. LET t == SetEntryState(s, e, open, now) IN
      /\ IsStore(t) /\ t.entries = [s.entries EXCEPT ![e] = set] /\ t.comments = s.comments
      /\ t.reactions = s.reactions /\ t.entryReactions = s.entryReactions
  BY DEF IsStore, Tables, SetEntryState, Touch, Row
<1> HIDE DEF edited, set
<1>5. Moved(s, EditEntry(s, e, now), {}, {e})
  BY <1>3, RowMoved
<1>6. Moved(s, SetEntryState(s, e, open, now), {}, {e})
  BY <1>4, RowMoved
<1> QED BY <1>1, <1>2, <1>3, <1>4, <1>5, <1>6

\* A deleted entry takes its thread along and touches no other.
LEMMA DeleteMoved ==
  ASSUME NEW s, NEW e, IsStore(s), Rooted(s)
  PROVE  Moved(s, DeleteEntry(s, e), {}, {})
<1> DEFINE u == [s EXCEPT !.entries = Keep(s.entries, (DOMAIN s.entries) \ {e})]
           t == Cascade(u)
<1>1. /\ IsStore(u) /\ u.comments = s.comments /\ u.reactions = s.reactions
      /\ u.entryReactions = s.entryReactions
      /\ DOMAIN u.entries = (DOMAIN s.entries) \ {e}
      /\ \A d \in DOMAIN u.entries : u.entries[d] = s.entries[d]
  BY DEF IsStore, Tables, Keep
<1>2. t = DeleteEntry(s, e)
  BY DEF DeleteEntry
<1> HIDE DEF u, t
<1>3. /\ IsStore(t) /\ Rooted(t) /\ t.entries = u.entries
      /\ DOMAIN t.comments = {c \in DOMAIN s.comments : s.comments[c].on \in DOMAIN u.entries}
      /\ DOMAIN t.reactions = {r \in DOMAIN s.reactions : s.reactions[r].on \in DOMAIN t.comments}
      /\ DOMAIN t.entryReactions =
           {r \in DOMAIN s.entryReactions : s.entryReactions[r].on \in DOMAIN u.entries}
      /\ Agree(t.comments, s.comments) /\ Agree(t.reactions, s.reactions)
      /\ Agree(t.entryReactions, s.entryReactions)
  BY <1>1, CascadeRooted DEF t
<1>4. \A d \in DOMAIN t.entries : SameThread(t, s, d)
  BY <1>1, <1>3 DEF SameThread, On, Marks, Likes, Agree, Rooted
<1> QED BY <1>1, <1>2, <1>3, <1>4 DEF Moved, Grows, Agree

\* Deleting a label takes no thread along.
LEMMA DeleteLabelMoved ==
  ASSUME NEW s, NEW l, NEW ids, IsStore(s), Rooted(s)
  PROVE  Moved(s, DeleteLabel(s, l), ids, {})
<1> DEFINE u == [s EXCEPT !.labels = s.labels \ {l}]
           t == Cascade(u)
<1>1. /\ IsStore(u) /\ u.comments = s.comments /\ u.reactions = s.reactions
      /\ u.entryReactions = s.entryReactions /\ u.entries = s.entries
  BY DEF IsStore, Tables
<1>2. t = DeleteLabel(s, l)
  BY DEF DeleteLabel
<1> HIDE DEF u, t
<1>3. /\ IsStore(t) /\ Rooted(t) /\ t.entries = s.entries
      /\ DOMAIN t.comments = {c \in DOMAIN s.comments : s.comments[c].on \in DOMAIN s.entries}
      /\ DOMAIN t.reactions = {r \in DOMAIN s.reactions : s.reactions[r].on \in DOMAIN t.comments}
      /\ DOMAIN t.entryReactions =
           {r \in DOMAIN s.entryReactions : s.entryReactions[r].on \in DOMAIN s.entries}
      /\ Agree(t.comments, s.comments) /\ Agree(t.reactions, s.reactions)
      /\ Agree(t.entryReactions, s.entryReactions)
  BY <1>1, CascadeRooted DEF t
<1>4. \A d \in DOMAIN t.entries : SameThread(t, s, d)
  BY <1>1, <1>3 DEF SameThread, On, Marks, Likes, Agree, Rooted
<1> QED BY <1>1, <1>2, <1>3, <1>4 DEF Moved, Grows, Agree

\* A new comment: the entry it is on is touched.
LEMMA AddCommentMoved ==
  ASSUME NEW s, NEW e, NEW c \in Comments, NEW now, IsStore(s), Rooted(s),
         e \in DOMAIN s.entries, s.entries[e] \in Row, c \notin DOMAIN s.comments, now.stamp \in Nat
  PROVE  LET t == AddEntryComment(s, e, c, now) IN
         /\ Moved(s, t, {c}, {e})
         /\ t.entries[e] \in Row /\ t.entries[e].stamp = now.stamp
<1> DEFINE row == [on |-> e, rev |-> now.rev, stamp |-> now.stamp]
           u   == [s EXCEPT !.comments = Put(s.comments, c, row)]
           t   == Touch(u, e, now)
<1>1. /\ IsStore(u) /\ u.entries = s.entries /\ u.comments = Put(s.comments, c, row)
      /\ u.reactions = s.reactions /\ u.entryReactions = s.entryReactions
  BY DEF IsStore, Tables
<1>2. t = AddEntryComment(s, e, c, now)
  BY DEF AddEntryComment
<1>3. row.on = e
  OBVIOUS
<1> HIDE DEF row, u, t
<1>4. /\ IsStore(t) /\ t.entries = [s.entries EXCEPT ![e] = [s.entries[e] EXCEPT !.stamp = now.stamp]]
      /\ t.entries[e] \in Row /\ t.entries[e].stamp = now.stamp
      /\ t.comments = u.comments /\ t.reactions = s.reactions /\ t.entryReactions = s.entryReactions
  BY <1>1, Touched DEF t
<1>5. /\ DOMAIN t.comments = (DOMAIN s.comments) \cup {c}
      /\ t.comments[c] = row
      /\ \A x \in DOMAIN s.comments : t.comments[x] = s.comments[x]
  BY <1>1, <1>4 DEF Put
<1>6. Moved(s, t, {c}, {e})
  BY <1>3, <1>4, <1>5 DEF Moved, Rooted, Grows, Agree, SameThread, On, Marks, Likes
<1> QED BY <1>2, <1>4, <1>6

\* A reaction on a comment: the entry the comment is on is touched.
LEMMA AddCommentReactionMoved ==
  ASSUME NEW s, NEW c, NEW e, NEW r, NEW now, IsStore(s), Rooted(s), c \in DOMAIN s.comments,
         s.comments[c].on = e, s.entries[e] \in Row, r \notin DOMAIN s.reactions, now.stamp \in Nat
  PROVE  LET t == AddCommentReaction(s, c, r, now) IN
         /\ Moved(s, t, {r}, {e})
         /\ t.entries[e] \in Row /\ t.entries[e].stamp = now.stamp
<1> DEFINE row == [on |-> c]
           u   == [s EXCEPT !.reactions = Put(s.reactions, r, row)]
           t   == Touch(u, e, now)
<1>1. /\ IsStore(u) /\ u.entries = s.entries /\ u.reactions = Put(s.reactions, r, row)
      /\ u.comments = s.comments /\ u.entryReactions = s.entryReactions
  BY DEF IsStore, Tables
<1>2. t = AddCommentReaction(s, c, r, now)
  BY DEF AddCommentReaction
<1>3. row.on = c /\ e \in DOMAIN s.entries
  BY DEF Rooted
<1> HIDE DEF row, u, t
<1>4. /\ IsStore(t) /\ t.entries = [s.entries EXCEPT ![e] = [s.entries[e] EXCEPT !.stamp = now.stamp]]
      /\ t.entries[e] \in Row /\ t.entries[e].stamp = now.stamp
      /\ t.comments = s.comments /\ t.reactions = u.reactions /\ t.entryReactions = s.entryReactions
  BY <1>1, <1>3, Touched DEF t
<1>5. /\ DOMAIN t.reactions = (DOMAIN s.reactions) \cup {r}
      /\ t.reactions[r] = row
      /\ \A x \in DOMAIN s.reactions : t.reactions[x] = s.reactions[x]
  BY <1>1, <1>4 DEF Put
<1>6. Moved(s, t, {r}, {e})
  BY <1>3, <1>4, <1>5 DEF Moved, Rooted, Grows, Agree, SameThread, On, Marks, Likes
<1> QED BY <1>2, <1>4, <1>6

\* A reaction on the entry itself.
LEMMA AddEntryReactionMoved ==
  ASSUME NEW s, NEW e, NEW r, NEW now, IsStore(s), Rooted(s), e \in DOMAIN s.entries,
         s.entries[e] \in Row, r \notin DOMAIN s.entryReactions, now.stamp \in Nat
  PROVE  LET t == AddEntryReaction(s, e, r, now) IN
         /\ Moved(s, t, {r}, {e})
         /\ t.entries[e] \in Row /\ t.entries[e].stamp = now.stamp
<1> DEFINE row == [on |-> e]
           u   == [s EXCEPT !.entryReactions = Put(s.entryReactions, r, row)]
           t   == Touch(u, e, now)
<1>1. /\ IsStore(u) /\ u.entries = s.entries /\ u.entryReactions = Put(s.entryReactions, r, row)
      /\ u.comments = s.comments /\ u.reactions = s.reactions
  BY DEF IsStore, Tables
<1>2. t = AddEntryReaction(s, e, r, now)
  BY DEF AddEntryReaction
<1>3. row.on = e
  OBVIOUS
<1> HIDE DEF row, u, t
<1>4. /\ IsStore(t) /\ t.entries = [s.entries EXCEPT ![e] = [s.entries[e] EXCEPT !.stamp = now.stamp]]
      /\ t.entries[e] \in Row /\ t.entries[e].stamp = now.stamp
      /\ t.comments = s.comments /\ t.reactions = s.reactions /\ t.entryReactions = u.entryReactions
  BY <1>1, Touched DEF t
<1>5. /\ DOMAIN t.entryReactions = (DOMAIN s.entryReactions) \cup {r}
      /\ t.entryReactions[r] = row
      /\ \A x \in DOMAIN s.entryReactions : t.entryReactions[x] = s.entryReactions[x]
  BY <1>1, <1>4 DEF Put
<1>6. Moved(s, t, {r}, {e})
  BY <1>3, <1>4, <1>5 DEF Moved, Rooted, Grows, Agree, SameThread, On, Marks, Likes
<1> QED BY <1>2, <1>4, <1>6

\* A label put on or taken off.
LEMMA RelabelMoved ==
  ASSUME NEW s, NEW e, NEW l, NEW now, IsStore(s), Rooted(s), e \in DOMAIN s.entries,
         s.entries[e] \in Row, now.stamp \in Nat
  PROVE  \A t \in {AddEntryLabel(s, e, l, now), RemoveEntryLabel(s, e, l, now)} :
           \/ Moved(s, t, {}, {e}) /\ t.entries[e] \in Row /\ t.entries[e].stamp = now.stamp
           \/ Moved(s, t, {}, {})
<1> DEFINE a == [s EXCEPT !.labels = s.labels \cup {l}, !.tags = s.tags \cup {<<e, l>>}]
           b == [s EXCEPT !.tags = s.tags \ {<<e, l>>}]
<1>1. \A u \in {a, b} :
        /\ IsStore(u) /\ u.entries = s.entries
        /\ u.comments = s.comments /\ u.reactions = s.reactions /\ u.entryReactions = s.entryReactions
  BY DEF IsStore, Tables
<1>2. AddEntryLabel(s, e, l, now) = Touch(a, e, now)
  BY DEF AddEntryLabel
<1>3. RemoveEntryLabel(s, e, l, now) \in {Touch(b, e, now), s}
  BY DEF RemoveEntryLabel
<1> HIDE DEF a, b
<1>4. ASSUME NEW u \in {a, b}, NEW t, t = Touch(u, e, now)
      PROVE  Moved(s, t, {}, {e}) /\ t.entries[e] \in Row /\ t.entries[e].stamp = now.stamp
  <2>1. /\ IsStore(t) /\ t.entries = [s.entries EXCEPT ![e] = [s.entries[e] EXCEPT !.stamp = now.stamp]]
        /\ t.entries[e] \in Row /\ t.entries[e].stamp = now.stamp
        /\ t.comments = s.comments /\ t.reactions = s.reactions /\ t.entryReactions = s.entryReactions
    BY <1>1, <1>4, Touched
  <2> QED BY <2>1, RowMoved
<1>5. Moved(s, s, {}, {})
  BY StillMoved
<1> QED BY <1>2, <1>3, <1>4, <1>5

\* A reaction taken back changes the thread of one entry, and no row.
LEMMA UnreactMoved ==
  ASSUME NEW s, NEW r, IsStore(s), Rooted(s)
  PROVE  /\ r \in DOMAIN s.reactions =>
              Moved(s, [s EXCEPT !.reactions = Keep(@, (DOMAIN @) \ {r})], {},
                    {s.comments[s.reactions[r].on].on})
         /\ r \in DOMAIN s.entryReactions =>
              Moved(s, [s EXCEPT !.entryReactions = Keep(@, (DOMAIN @) \ {r})], {},
                    {s.entryReactions[r].on})
<1> DEFINE t == [s EXCEPT !.reactions = Keep(s.reactions, (DOMAIN s.reactions) \ {r})]
           u == [s EXCEPT !.entryReactions = Keep(s.entryReactions, (DOMAIN s.entryReactions) \ {r})]
<1>1. /\ IsStore(t) /\ t.entries = s.entries /\ t.comments = s.comments
      /\ t.reactions = Keep(s.reactions, (DOMAIN s.reactions) \ {r})
      /\ t.entryReactions = s.entryReactions
  BY DEF IsStore, Tables
<1>2. /\ IsStore(u) /\ u.entries = s.entries /\ u.comments = s.comments
      /\ u.entryReactions = Keep(s.entryReactions, (DOMAIN s.entryReactions) \ {r})
      /\ u.reactions = s.reactions
  BY DEF IsStore, Tables
<1> HIDE DEF t, u
<1>3. r \in DOMAIN s.reactions => Moved(s, t, {}, {s.comments[s.reactions[r].on].on})
  BY <1>1 DEF Keep, Moved, Rooted, Grows, Agree, SameThread, On, Marks, Likes
<1>4. r \in DOMAIN s.entryReactions => Moved(s, u, {}, {s.entryReactions[r].on})
  BY <1>2 DEF Keep, Moved, Rooted, Grows, Agree, SameThread, On, Marks, Likes
<1> QED BY <1>3, <1>4 DEF t, u

----------------------------------------------------------------------------
(* The remote *)

\* the ids of a store have been handed out
Known(s) ==
  /\ IsStore(s)
  /\ DOMAIN s.entries \subseteq Entries \cap born
  /\ DOMAIN s.comments \subseteq Comments \cap born
  /\ (DOMAIN s.reactions) \cup (DOMAIN s.entryReactions) \subseteq born

\* no row is newer than the clock
Timed(s) ==
  \A e \in DOMAIN s.entries : s.entries[e] \in Row /\ s.entries[e].stamp <= clock.time

RemoteInv ==
  /\ clock \in [writes: Nat, time: Nat]
  /\ Known(remote) /\ Rooted(remote) /\ Timed(remote)

\* Any step of the remote: an entry whose row or thread changes, or that is touched after
\* all, gets a time of its own, unless the clock is coarse or the console still owes it one.
RemoteMoved ==
  /\ RemoteInv' /\ clock.time <= clock'.time
  /\ \E ids, es :
       /\ ids \cap born = {} /\ born' = born \cup ids
       /\ Moved(remote, remote', ids, es)
       /\ toggling \ toggling' \subseteq es
       /\ \A e \in es \cap DOMAIN remote'.entries :
            e \in toggling' \/ Coarse \/ remote'.entries[e].stamp > clock.time

\* The time a write gets.
LEMMA NowsTyped ==
  ASSUME RemoteInv, NEW now \in Nows
  PROVE  /\ now.rev = clock.writes + 1 /\ now.rev \in Nat
         /\ now.stamp \in Nat /\ clock.time <= now.stamp
         /\ Coarse \/ now.stamp > clock.time
BY DEF RemoteInv, Nows

\* A write of either kind is a step of the remote.
LEMMA MovedIsStep ==
  ASSUME RemoteInv, NEW ids, NEW es, ids \cap born = {}, born' = born \cup ids,
         Moved(remote, remote', ids, es), toggling \ toggling' \subseteq es,
         clock' \in [writes: Nat, time: Nat], clock.time <= clock'.time,
         \A e \in es \cap DOMAIN remote'.entries :
           /\ remote'.entries[e] \in Row /\ remote'.entries[e].stamp <= clock'.time
           /\ e \in toggling' \/ Coarse \/ remote'.entries[e].stamp > clock.time
  PROVE  RemoteMoved
<1>1. Known(remote)' /\ Rooted(remote)'
  BY DEF RemoteInv, Known, Moved, Grows
<1>2. Timed(remote)'
  <2> SUFFICES ASSUME NEW e \in DOMAIN remote'.entries
               PROVE  remote'.entries[e] \in Row /\ remote'.entries[e].stamp <= clock'.time
    BY DEF Timed
  <2>1. CASE e \in es
    BY <2>1
  <2>2. CASE e \notin es
    <3>1. e \in DOMAIN remote.entries /\ remote'.entries[e] = remote.entries[e]
      BY <2>2 DEF Moved
    <3>2. remote.entries[e] \in Row /\ remote.entries[e].stamp <= clock.time
      BY <3>1 DEF RemoteInv, Timed
    <3> QED BY <3>1, <3>2 DEF RemoteInv, Row
  <2> QED BY <2>1, <2>2
<1> QED BY <1>1, <1>2 DEF RemoteInv, RemoteMoved

\* A write through Wrote, which stamps the entries it changes or leaves them to be touched.
LEMMA WroteIsStep ==
  ASSUME RemoteInv, NEW ids, NEW es, NEW now \in Nows, Wrote(now, ids),
         Moved(remote, remote', ids, es), toggling \subseteq toggling',
         \A e \in es \cap DOMAIN remote'.entries :
           \/ remote'.entries[e] \in Row /\ remote'.entries[e].stamp = now.stamp
           \/ e \in toggling' /\ e \in DOMAIN remote.entries /\ remote'.entries[e] = remote.entries[e]
  PROVE  RemoteMoved
<1>1. /\ clock' \in [writes: Nat, time: Nat] /\ clock'.time = now.stamp /\ clock.time <= clock'.time
      /\ ids \cap born = {} /\ born' = born \cup ids
  BY NowsTyped DEF Wrote
<1>2. ASSUME NEW e \in es \cap DOMAIN remote'.entries
      PROVE  /\ remote'.entries[e] \in Row /\ remote'.entries[e].stamp <= clock'.time
             /\ e \in toggling' \/ Coarse \/ remote'.entries[e].stamp > clock.time
  <2>1. CASE remote'.entries[e] \in Row /\ remote'.entries[e].stamp = now.stamp
    BY <1>1, <2>1, NowsTyped
  <2>2. CASE e \in toggling' /\ e \in DOMAIN remote.entries /\ remote'.entries[e] = remote.entries[e]
    <3>1. remote.entries[e] \in Row /\ remote.entries[e].stamp <= clock.time
      BY <2>2 DEF RemoteInv, Timed
    <3> QED BY <1>1, <2>2, <3>1 DEF RemoteInv, Row
  <2> QED BY <1>2, <2>1, <2>2
<1> QED BY <1>1, <1>2, MovedIsStep

\* What people do on entries.
LEMMA EntriesMove ==
  ASSUME RemoteInv, PostEntry \/ PostComment \/ React \/ ChangeEntry
  PROVE  RemoteMoved
<1>1. IsStore(remote) /\ Rooted(remote) /\ \A e \in DOMAIN remote.entries : remote.entries[e] \in Row
  BY DEF RemoteInv, Known, Timed
<1>2. ASSUME NEW e \in Entries, NEW ls \in SUBSET (Labels \ born), NEW now \in Nows,
             remote' = AddEntry(remote, e, ls, now), Wrote(now, {e}), UNCHANGED toggling
      PROVE  RemoteMoved
  <2>1. e \notin DOMAIN remote.entries
    BY <1>2 DEF RemoteInv, Known, Wrote
  <2>2. Moved(remote, remote', {e}, {e}) /\ remote'.entries[e] \in Row /\ remote'.entries[e].stamp = now.stamp
    BY <1>1, <1>2, <2>1, NowsTyped, AddEntryMoved
  <2> QED BY <1>2, <2>2, WroteIsStep
<1>3. ASSUME NEW e \in DOMAIN remote.entries, NEW c \in Comments, NEW now \in Nows,
             remote' = AddEntryComment(remote, e, c, now), Wrote(now, {c}), UNCHANGED toggling
      PROVE  RemoteMoved
  <2>1. c \notin DOMAIN remote.comments
    BY <1>3 DEF RemoteInv, Known, Wrote
  <2>2. now.stamp \in Nat /\ remote.entries[e] \in Row
    BY <1>1, NowsTyped DEF Rooted
  <2>3. Moved(remote, remote', {c}, {e}) /\ remote'.entries[e] \in Row /\ remote'.entries[e].stamp = now.stamp
    BY <1>1, <1>3, <2>1, <2>2, AddCommentMoved
  <2> QED BY <1>3, <2>3, WroteIsStep
<1>4. ASSUME NEW r \in Reactions, NEW now \in Nows, NEW c \in DOMAIN remote.comments,
             remote' = AddCommentReaction(remote, c, r, now), Wrote(now, {r}), UNCHANGED toggling
      PROVE  RemoteMoved
  <2> DEFINE e == remote.comments[c].on
  <2>1. r \notin DOMAIN remote.reactions
    BY <1>4 DEF RemoteInv, Known, Wrote
  <2>2. c \in DOMAIN remote.comments /\ remote.comments[c].on = e
    OBVIOUS
  <2>3. IsStore(remote) /\ Rooted(remote)
    BY <1>1
  <2>4. now.stamp \in Nat /\ remote.entries[e] \in Row
    BY <1>1, NowsTyped DEF Rooted
  <2> HIDE DEF e
  <2>5. LET t == AddCommentReaction(remote, c, r, now) IN
        Moved(remote, t, {r}, {e}) /\ t.entries[e] \in Row /\ t.entries[e].stamp = now.stamp
    BY <2>1, <2>2, <2>3, <2>4, AddCommentReactionMoved
  <2> QED BY <1>4, <2>5, WroteIsStep
<1>5. ASSUME NEW r \in Reactions, NEW now \in Nows, NEW e \in DOMAIN remote.entries,
             remote' = AddEntryReaction(remote, e, r, now), Wrote(now, {r}), UNCHANGED toggling
      PROVE  RemoteMoved
  <2>1. r \notin DOMAIN remote.entryReactions
    BY <1>5 DEF RemoteInv, Known, Wrote
  <2>2. now.stamp \in Nat /\ remote.entries[e] \in Row
    BY <1>1, NowsTyped DEF Rooted
  <2>3. LET t == AddEntryReaction(remote, e, r, now) IN
        Moved(remote, t, {r}, {e}) /\ t.entries[e] \in Row /\ t.entries[e].stamp = now.stamp
    BY <1>1, <2>1, <2>2, AddEntryReactionMoved
  <2> QED BY <1>5, <2>3, WroteIsStep
<1>6. ASSUME NEW e \in DOMAIN remote.entries, NEW now \in Nows, NEW open \in BOOLEAN,
             remote' \in {EditEntry(remote, e, now), SetEntryState(remote, e, open, now)},
             Wrote(now, {}), UNCHANGED toggling
      PROVE  RemoteMoved
  <2>1. Moved(remote, remote', {}, {e}) /\ remote'.entries[e] \in Row /\ remote'.entries[e].stamp = now.stamp
    BY <1>1, <1>6, NowsTyped, EditMoved
  <2> QED BY <1>6, <2>1, WroteIsStep
<1>7. ASSUME NEW e \in DOMAIN remote.entries, NEW now \in Nows,
             remote' = DeleteEntry(remote, e), Wrote(now, {}), UNCHANGED toggling
      PROVE  RemoteMoved
  <2>1. Moved(remote, remote', {}, {})
    BY <1>1, <1>7, DeleteMoved
  <2> QED BY <1>7, <2>1, WroteIsStep
<1>8. CASE PostEntry
  BY <1>2, <1>8 DEF PostEntry
<1>9. CASE PostComment
  BY <1>3, <1>9 DEF PostComment
<1>10. CASE React
  BY <1>4, <1>5, <1>10 DEF React
<1>11. CASE ChangeEntry
  BY <1>6, <1>7, <1>11 DEF ChangeEntry
<1> QED BY <1>8, <1>9, <1>10, <1>11

\* What people, the console and the seeding do to labels, pins, pull requests and reactions.
LEMMA RestMoves ==
  ASSUME RemoteInv, Relabel \/ Reseed \/ PostPull \/ ChangePull \/ Unreact
  PROVE  RemoteMoved
<1>1. IsStore(remote) /\ Rooted(remote) /\ \A e \in DOMAIN remote.entries : remote.entries[e] \in Row
  BY DEF RemoteInv, Known, Timed
<1>2. ASSUME NEW ids, NEW now \in Nows, Wrote(now, ids), UNCHANGED toggling,
             Moved(remote, remote', ids, {})
      PROVE  RemoteMoved
  BY <1>2, WroteIsStep
<1>3. ASSUME NEW ids, NEW now \in Nows, Wrote(now, ids), UNCHANGED toggling,
             IsStore(remote'), remote'.entries = remote.entries, remote'.comments = remote.comments,
             remote'.reactions = remote.reactions, remote'.entryReactions = remote.entryReactions
      PROVE  RemoteMoved
  BY <1>1, <1>2, <1>3, StillMoved
<1>4. ASSUME NEW e \in DOMAIN remote.entries, NEW l, NEW now \in Nows,
             remote' \in {AddEntryLabel(remote, e, l, now), RemoveEntryLabel(remote, e, l, now)},
             Wrote(now, {}), UNCHANGED toggling
      PROVE  RemoteMoved
  <2>1. \/ /\ Moved(remote, remote', {}, {e})
           /\ remote'.entries[e] \in Row /\ remote'.entries[e].stamp = now.stamp
        \/ Moved(remote, remote', {}, {})
    BY <1>1, <1>4, NowsTyped, RelabelMoved
  <2> QED BY <1>4, <1>2, <2>1, WroteIsStep
<1>5. CASE Relabel
  BY <1>4, <1>5 DEF Relabel
<1>6. CASE Reseed
  <2>1. ASSUME NEW now \in Nows, NEW l \in Labels \ (remote.labels \cup born),
               remote' = CreateLabel(remote, l), Wrote(now, {})
        PROVE  RemoteMoved
    BY <1>1, <1>3, <1>6, <2>1 DEF Reseed, CreateLabel, IsStore, Tables
  <2>2. ASSUME NEW now \in Nows, NEW l \in remote.labels,
               remote' = DeleteLabel(remote, l), Wrote(now, {l})
        PROVE  RemoteMoved
    BY <1>1, <1>2, <1>6, <2>2, DeleteLabelMoved DEF Reseed
  <2>3. ASSUME NEW now \in Nows, NEW e \in DOMAIN remote.entries \ remote.pins,
               remote' = PinEntry(remote, e), Wrote(now, {})
        PROVE  RemoteMoved
    BY <1>1, <1>3, <1>6, <2>3 DEF Reseed, PinEntry, IsStore, Tables
  <2> QED BY <1>6, <2>1, <2>2, <2>3 DEF Reseed
<1>7. CASE PostPull
  <2>1. PICK p \in Pulls, ls \in SUBSET (Labels \ born), now \in Nows :
          remote' = AddPull(remote, p, ls, now) /\ Wrote(now, {p}) /\ UNCHANGED toggling
    BY <1>7 DEF PostPull
  <2>2. /\ IsStore(remote') /\ remote'.entries = remote.entries /\ remote'.comments = remote.comments
        /\ remote'.reactions = remote.reactions /\ remote'.entryReactions = remote.entryReactions
    BY <1>1, <2>1 DEF AddPull, IsStore, Tables
  <2> QED BY <1>3, <2>1, <2>2
<1>8. CASE ChangePull
  <2>1. PICK now \in Nows :
          \/ \E p \in DOMAIN remote.pulls : remote' = SetPullClosed(remote, p, now) /\ Wrote(now, {})
          \/ \E p \in DOMAIN remote.pulls, c \in Comments :
               remote' = AddPullComment(remote, p, c, now) /\ Wrote(now, {c})
          \/ \E c \in DOMAIN remote.pullComments, r \in Reactions :
               remote' = AddPullCommentReaction(remote, c, r, now) /\ Wrote(now, {r})
    BY <1>8 DEF ChangePull
  <2>2. UNCHANGED toggling
    BY <1>8 DEF ChangePull
  <2>3. /\ IsStore(remote') /\ remote'.entries = remote.entries /\ remote'.comments = remote.comments
        /\ remote'.reactions = remote.reactions /\ remote'.entryReactions = remote.entryReactions
    BY <1>1, <2>1 DEF SetPullClosed, AddPullComment, AddPullCommentReaction, TouchPull, IsStore, Tables
  <2> QED BY <1>3, <2>1, <2>2, <2>3
<1>9. CASE Unreact
  <2>1. PICK now \in Nows, r \in Reactions :
          /\ \/ /\ r \in DOMAIN remote.reactions
                /\ remote' = [remote EXCEPT !.reactions = Keep(@, (DOMAIN @) \ {r})]
                /\ toggling' = toggling \cup {remote.comments[remote.reactions[r].on].on}
             \/ /\ r \in DOMAIN remote.entryReactions
                /\ remote' = [remote EXCEPT !.entryReactions = Keep(@, (DOMAIN @) \ {r})]
                /\ toggling' = toggling \cup {remote.entryReactions[r].on}
          /\ Wrote(now, {})
    BY <1>9 DEF Unreact
  <2>2. PICK e : Moved(remote, remote', {}, {e}) /\ toggling' = toggling \cup {e}
    <3>1. CASE /\ r \in DOMAIN remote.reactions
               /\ remote' = [remote EXCEPT !.reactions = Keep(@, (DOMAIN @) \ {r})]
               /\ toggling' = toggling \cup {remote.comments[remote.reactions[r].on].on}
      BY <1>1, <3>1, UnreactMoved
    <3>2. CASE /\ r \in DOMAIN remote.entryReactions
               /\ remote' = [remote EXCEPT !.entryReactions = Keep(@, (DOMAIN @) \ {r})]
               /\ toggling' = toggling \cup {remote.entryReactions[r].on}
      BY <1>1, <3>2, UnreactMoved
    <3> QED BY <2>1, <3>1, <3>2
  <2>3. remote'.entries = remote.entries
    BY <1>1, <2>1 DEF IsStore, Tables
  <2> QED BY <2>1, <2>2, <2>3, WroteIsStep
<1> QED BY <1>5, <1>6, <1>7, <1>8, <1>9

\* The console touches the entry it changed.
LEMMA TouchAfterMoves ==
  ASSUME RemoteInv, TouchAfter
  PROVE  RemoteMoved
<1>1. PICK e \in toggling :
        LET now == [rev |-> clock.writes, stamp |-> clock.time + 1] IN
        /\ toggling' = toggling \ {e}
        /\ clock' = [clock EXCEPT !.time = now.stamp]
        /\ remote' = IF e \in DOMAIN remote.entries THEN Touch(remote, e, now) ELSE remote
        /\ UNCHANGED born
  BY DEF TouchAfter
<1>2. IsStore(remote) /\ Rooted(remote) /\ \A d \in DOMAIN remote.entries : remote.entries[d] \in Row
  BY DEF RemoteInv, Known, Timed
<1>3. clock' \in [writes: Nat, time: Nat] /\ clock'.time = clock.time + 1 /\ clock.time < clock'.time
  BY <1>1 DEF RemoteInv
<1>4. CASE e \in DOMAIN remote.entries
  <2> DEFINE now == [rev |-> clock.writes, stamp |-> clock.time + 1]
  <2>1. now.stamp \in Nat /\ now.stamp = clock'.time
    BY <1>3 DEF RemoteInv
  <2> HIDE DEF now
  <2>2. remote' = Touch(remote, e, now)
    BY <1>1, <1>4 DEF now
  <2>3. /\ IsStore(remote')
        /\ remote'.entries = [remote.entries EXCEPT ![e] = [remote.entries[e] EXCEPT !.stamp = now.stamp]]
        /\ remote'.entries[e] \in Row /\ remote'.entries[e].stamp = now.stamp
        /\ remote'.comments = remote.comments /\ remote'.reactions = remote.reactions
        /\ remote'.entryReactions = remote.entryReactions
    BY <1>2, <1>4, <2>1, <2>2, Touched
  <2>4. Moved(remote, remote', {}, {e})
    BY <1>2, <2>3, RowMoved
  <2>5. /\ remote'.entries[e].stamp <= clock'.time
        /\ remote'.entries[e].stamp > clock.time
    BY <1>3, <2>1, <2>3
  <2>6. clock.time <= clock'.time /\ born' = born \cup {} /\ toggling \ toggling' \subseteq {e}
    BY <1>1, <1>3 DEF RemoteInv
  <2> QED BY <1>3, <2>3, <2>4, <2>5, <2>6, MovedIsStep
<1>5. CASE e \notin DOMAIN remote.entries
  <2>1. Moved(remote, remote', {}, {}) /\ remote' = remote
    BY <1>1, <1>2, <1>5, StillMoved
  <2>2. Moved(remote, remote', {}, {e})
    BY <2>1 DEF Moved
  <2>3. clock.time <= clock'.time /\ born' = born \cup {} /\ toggling \ toggling' \subseteq {e}
    BY <1>1, <1>3 DEF RemoteInv
  <2> QED BY <1>3, <1>5, <2>1, <2>2, <2>3, MovedIsStep
<1> QED BY <1>4, <1>5

\* Every step of the remote is one.
LEMMA RemoteSteps ==
  ASSUME RemoteInv, People \/ TouchAfter
  PROVE  /\ RemoteMoved
         /\ UNCHANGED <<provider, mirror, poll, changes, queue, told, lost, faults>>
<1>1. RemoteMoved
  BY EntriesMove, RestMoves, TouchAfterMoves DEF People
<1>2. UNCHANGED <<provider, mirror, poll, changes, queue, told, lost, faults>>
  BY DEF People, TouchAfter, PostEntry, PostComment, React, ChangeEntry, Relabel, Reseed, PostPull,
         ChangePull, Unreact, Wrote
<1> QED BY <1>1, <1>2

----------------------------------------------------------------------------
(* What the mirror and a poll know *)

\* the entries whose threads the poll has read
Got ==
  IF poll.at = "ready" THEN poll.todo
  ELSE IF poll.at \in {"list"} \cup Entries THEN DOMAIN poll.snap.entries \ {poll.at} ELSE {}

\* the entries the poll has read, or is going to
Listed ==
  (DOMAIN poll.snap.entries) \cup IF poll.at \in {"list"} \cup Entries THEN poll.todo ELSE {}

PollInv ==
  /\ poll.at \in Stages \cup Entries
  /\ poll.at \in {"idle", "labels", "relations"} => DOMAIN poll.snap.entries = {}
  /\ poll.at \in {"list"} \cup Entries => poll.todo \cap DOMAIN poll.snap.entries = {}
  /\ poll.at \in Entries => poll.at \in DOMAIN poll.snap.entries

\* a poll has the threads of these entries only
Confined ==
  /\ \A c \in DOMAIN poll.snap.comments : poll.snap.comments[c].on \in Got
  /\ \A r \in DOMAIN poll.snap.reactions : poll.snap.reactions[r].on \in DOMAIN poll.snap.comments
  /\ \A r \in DOMAIN poll.snap.entryReactions : poll.snap.entryReactions[r].on \in Got

\* what was there when the poll began, and still is, the poll does not miss
Covers ==
  /\ poll.at \notin {"idle", "labels", "relations"} =>
       (DOMAIN mirror.entries) \cap (DOMAIN remote.entries) \subseteq Listed
  /\ \A e \in Got : On(mirror, e) \cap DOMAIN remote.comments \subseteq DOMAIN poll.snap.comments

\* what was reported as new is in the mirror for as long as the remote has it
ToldInv ==
  /\ told \subseteq born
  /\ told \cap ((DOMAIN remote.entries) \cup (DOMAIN poll.snap.entries)) \subseteq DOMAIN mirror.entries
  /\ told \cap ((DOMAIN remote.comments) \cup (DOMAIN poll.snap.comments)) \subseteq DOMAIN mirror.comments

KnowInv ==
  /\ RemoteInv
  /\ Known(mirror) /\ Rooted(mirror) /\ Known(poll.snap)
  /\ Alike(mirror, remote) /\ Alike(poll.snap, remote) /\ Alike(mirror, poll.snap)
  /\ PollInv /\ Confined /\ Covers /\ ToldInv

\* an entry of the same time has the same row, and, among "es", the same thread
Tells(s, r, owed, es) ==
  \A e \in ((DOMAIN s.entries) \cap (DOMAIN r.entries)) \ owed :
    s.entries[e].stamp = r.entries[e].stamp =>
      s.entries[e] = r.entries[e] /\ (e \in es => SameThread(s, r, e))

\* a thread is skipped when the mirror has the entry with the time the poll read
SkipsOld ==
  poll.at = "ready" =>
    \A e \in DOMAIN poll.snap.entries \ poll.todo :
      e \in DOMAIN mirror.entries /\ mirror.entries[e].stamp = poll.snap.entries[e].stamp

StampInv ==
  /\ Timed(mirror) /\ Timed(poll.snap) /\ SkipsOld
  /\ Tells(mirror, remote, toggling, DOMAIN mirror.entries)
  /\ Tells(poll.snap, remote, toggling, Got)

\* What was alike stays so: a new id is in neither store.
LEMMA AlikeKept ==
  ASSUME NEW s, Known(s), Alike(s, remote), RemoteMoved
  PROVE  Alike(s, remote')
BY DEF Known, Alike, Agree, RemoteMoved, Moved, Grows

\* The remote moves under the mirror and the poll.
LEMMA RemoteKeepsKnown ==
  ASSUME KnowInv, RemoteMoved, UNCHANGED <<mirror, poll, told>>
  PROVE  KnowInv'
<1>1. PICK ids, es : ids \cap born = {} /\ born' = born \cup ids /\ Moved(remote, remote', ids, es)
  BY DEF RemoteMoved
<1>2. RemoteInv' /\ Known(mirror)' /\ Rooted(mirror)' /\ Known(poll.snap)'
  BY <1>1 DEF KnowInv, RemoteMoved, Known, Rooted
<1>3. Alike(mirror, remote)' /\ Alike(poll.snap, remote)' /\ Alike(mirror, poll.snap)'
  BY AlikeKept DEF KnowInv
<1>4. PollInv' /\ Confined'
  BY DEF KnowInv, PollInv, Confined, Got
<1>5. Covers'
  <2>1. (DOMAIN mirror.entries) \cap (DOMAIN remote'.entries) \subseteq DOMAIN remote.entries
    BY <1>1 DEF KnowInv, Known, Moved
  <2>2. \A e : On(mirror, e) \cap DOMAIN remote'.comments \subseteq DOMAIN remote.comments
    BY <1>1 DEF KnowInv, Known, Moved, Grows, On
  <2>3. Got' = Got /\ Listed' = Listed
    BY DEF Got, Listed
  <2>4. Covers
    BY DEF KnowInv
  <2>5. \A e : On(mirror', e) = On(mirror, e)
    BY DEF On
  <2> QED BY <2>1, <2>2, <2>3, <2>4, <2>5 DEF Covers
<1>6. ToldInv'
  <2>1. told \cap DOMAIN remote'.entries \subseteq DOMAIN remote.entries
    BY <1>1 DEF KnowInv, ToldInv, Moved
  <2>2. told \cap DOMAIN remote'.comments \subseteq DOMAIN remote.comments
    BY <1>1 DEF KnowInv, ToldInv, Moved
  <2>3. told' \subseteq born'
    BY <1>1 DEF KnowInv, ToldInv
  <2> QED BY <2>1, <2>2, <2>3 DEF KnowInv, ToldInv
<1> QED BY <1>2, <1>3, <1>4, <1>5, <1>6 DEF KnowInv

\* A write that changes an entry gives it a time no store had read.
LEMMA TellsKept ==
  ASSUME NEW s, NEW es, ~Coarse, RemoteInv, Known(s), Timed(s), Tells(s, remote, toggling, es), RemoteMoved
  PROVE  Tells(s, remote', toggling', es)
<1> SUFFICES ASSUME NEW e \in ((DOMAIN s.entries) \cap (DOMAIN remote'.entries)) \ toggling',
                    s.entries[e].stamp = remote'.entries[e].stamp
             PROVE  s.entries[e] = remote'.entries[e] /\ (e \in es => SameThread(s, remote', e))
  BY DEF Tells
<1>1. PICK ids, ch :
        /\ ids \cap born = {} /\ Moved(remote, remote', ids, ch) /\ toggling \ toggling' \subseteq ch
        /\ \A d \in ch \cap DOMAIN remote'.entries :
             d \in toggling' \/ Coarse \/ remote'.entries[d].stamp > clock.time
  BY DEF RemoteMoved
<1>2. s.entries[e].stamp \in Nat /\ s.entries[e].stamp <= clock.time /\ clock.time \in Nat
  BY DEF Timed, Row, RemoteInv
<1>3. e \notin ch
  BY <1>1, <1>2
<1>4. e \notin toggling /\ e \in DOMAIN remote.entries /\ remote'.entries[e] = remote.entries[e]
      /\ SameThread(remote', remote, e)
  BY <1>1, <1>3 DEF Moved
<1>5. s.entries[e] = remote.entries[e] /\ (e \in es => SameThread(s, remote, e))
  BY <1>4 DEF Tells
<1> QED BY <1>4, <1>5 DEF SameThread

\* The remote moves under what the times tell.
LEMMA RemoteKeepsStamps ==
  ASSUME ~Coarse, KnowInv, StampInv, RemoteMoved, UNCHANGED <<mirror, poll>>
  PROVE  StampInv'
<1>1. Timed(mirror)' /\ Timed(poll.snap)' /\ SkipsOld'
  <2>1. clock.time \in Nat /\ clock'.time \in Nat /\ clock.time <= clock'.time
    BY DEF RemoteMoved, RemoteInv, KnowInv
  <2>2. ASSUME NEW s, Timed(s), NEW e \in DOMAIN s.entries
        PROVE  s.entries[e].stamp <= clock'.time
    BY <2>1, <2>2 DEF Timed, Row
  <2>3. Timed(mirror)'
    BY <2>2 DEF StampInv, Timed
  <2>4. Timed(poll.snap)'
    BY <2>2 DEF StampInv, Timed
  <2> QED BY <2>3, <2>4 DEF StampInv, SkipsOld
<1>2. Tells(mirror, remote', toggling', DOMAIN mirror.entries) /\ Tells(poll.snap, remote', toggling', Got)
  BY TellsKept DEF KnowInv, StampInv
<1>3. Got' = Got
  BY DEF Got
<1> QED BY <1>1, <1>2, <1>3 DEF StampInv

----------------------------------------------------------------------------
(* The reads of a poll *)

\* Rows of "k" laid over a table that agrees with it: neither loses a row.
LEMMA OverlayAgrees ==
  ASSUME NEW f, NEW g, NEW k, Agree(f, k), \A x \in DOMAIN g : x \in DOMAIN k /\ g[x] = k[x]
  PROVE  /\ DOMAIN Overlay(f, g) = (DOMAIN f) \cup DOMAIN g
         /\ Agree(Overlay(f, g), f) /\ Agree(Overlay(f, g), k)
<1> DEFINE o == Overlay(f, g)
<1>1. DOMAIN o = (DOMAIN f) \cup DOMAIN g
  BY DEF Overlay
<1>2. \A x \in DOMAIN o : o[x] = IF x \in DOMAIN g THEN g[x] ELSE f[x]
  BY DEF Overlay
<1> HIDE DEF o
<1>3. Agree(o, f) /\ Agree(o, k)
  BY <1>1, <1>2 DEF Agree
<1> QED BY <1>1, <1>3 DEF o

\* Reading threads adds the rows the remote has on "es", and changes none.
LEMMA WithThreadsReads ==
  ASSUME NEW s, NEW es, IsStore(s), Alike(s, remote)
  PROVE  LET t  == WithThreads(s, es)
             cs == {c \in DOMAIN remote.comments : remote.comments[c].on \in es} IN
         /\ IsStore(t) /\ t.entries = s.entries
         /\ DOMAIN t.comments = (DOMAIN s.comments) \cup cs
         /\ DOMAIN t.reactions =
              (DOMAIN s.reactions) \cup {r \in DOMAIN remote.reactions : remote.reactions[r].on \in cs}
         /\ DOMAIN t.entryReactions =
              (DOMAIN s.entryReactions)
                \cup {r \in DOMAIN remote.entryReactions : remote.entryReactions[r].on \in es}
         /\ Alike(t, s) /\ Alike(t, remote)
<1> DEFINE cs == RowsOn(remote.comments, es)
           f == Keep(remote.comments, cs)
           g == Keep(remote.reactions, RowsOn(remote.reactions, cs))
           h == Keep(remote.entryReactions, RowsOn(remote.entryReactions, es))
           t == WithThreads(s, es)
<1>1. /\ IsStore(t) /\ t.entries = s.entries
      /\ t.comments = Overlay(s.comments, f) /\ t.reactions = Overlay(s.reactions, g)
      /\ t.entryReactions = Overlay(s.entryReactions, h)
  BY DEF IsStore, Tables, WithThreads
<1>2. /\ cs = {c \in DOMAIN remote.comments : remote.comments[c].on \in es}
      /\ DOMAIN f = cs /\ \A x \in cs : f[x] = remote.comments[x]
      /\ DOMAIN g = {r \in DOMAIN remote.reactions : remote.reactions[r].on \in cs}
      /\ \A x \in DOMAIN g : g[x] = remote.reactions[x]
      /\ DOMAIN h = {r \in DOMAIN remote.entryReactions : remote.entryReactions[r].on \in es}
      /\ \A x \in DOMAIN h : h[x] = remote.entryReactions[x]
  BY DEF RowsOn, Keep
<1> HIDE DEF cs, f, g, h, t
<1>3. /\ Agree(s.comments, remote.comments) /\ Agree(s.reactions, remote.reactions)
      /\ Agree(s.entryReactions, remote.entryReactions)
  BY DEF Alike
<1>4. /\ \A x \in DOMAIN f : x \in DOMAIN remote.comments /\ f[x] = remote.comments[x]
      /\ \A x \in DOMAIN g : x \in DOMAIN remote.reactions /\ g[x] = remote.reactions[x]
      /\ \A x \in DOMAIN h : x \in DOMAIN remote.entryReactions /\ h[x] = remote.entryReactions[x]
  BY <1>2
<1>5. LET o == Overlay(s.comments, f) IN
      /\ DOMAIN o = (DOMAIN s.comments) \cup DOMAIN f
      /\ Agree(o, s.comments) /\ Agree(o, remote.comments)
  BY <1>3, <1>4, OverlayAgrees
<1>6. LET o == Overlay(s.reactions, g) IN
      /\ DOMAIN o = (DOMAIN s.reactions) \cup DOMAIN g
      /\ Agree(o, s.reactions) /\ Agree(o, remote.reactions)
  BY <1>3, <1>4, OverlayAgrees
<1>7. LET o == Overlay(s.entryReactions, h) IN
      /\ DOMAIN o = (DOMAIN s.entryReactions) \cup DOMAIN h
      /\ Agree(o, s.entryReactions) /\ Agree(o, remote.entryReactions)
  BY <1>3, <1>4, OverlayAgrees
<1> QED BY <1>1, <1>2, <1>5, <1>6, <1>7 DEF t, Alike

\* Leaving out threads takes whole threads away.
LEMMA OnlyThreadsKeeps ==
  ASSUME NEW s, NEW es, IsStore(s)
  PROVE  LET t  == OnlyThreads(s, es)
             cs == {c \in DOMAIN s.comments : s.comments[c].on \in es} IN
         /\ IsStore(t) /\ t.entries = s.entries
         /\ DOMAIN t.comments = cs
         /\ DOMAIN t.reactions = {r \in DOMAIN s.reactions : s.reactions[r].on \in cs}
         /\ DOMAIN t.entryReactions = {r \in DOMAIN s.entryReactions : s.entryReactions[r].on \in es}
         /\ \A c \in DOMAIN t.comments : t.comments[c] = s.comments[c]
         /\ \A r \in DOMAIN t.reactions : t.reactions[r] = s.reactions[r]
         /\ \A r \in DOMAIN t.entryReactions : t.entryReactions[r] = s.entryReactions[r]
<1> DEFINE cs == RowsOn(s.comments, es)
           t  == OnlyThreads(s, es)
<1>1. /\ IsStore(t) /\ t.entries = s.entries
      /\ t.comments = Keep(s.comments, cs) /\ t.reactions = Keep(s.reactions, RowsOn(s.reactions, cs))
      /\ t.entryReactions = Keep(s.entryReactions, RowsOn(s.entryReactions, es))
  BY DEF IsStore, Tables, OnlyThreads
<1> HIDE DEF t
<1>2. cs = {c \in DOMAIN s.comments : s.comments[c].on \in es}
  BY DEF RowsOn
<1> HIDE DEF cs
<1> QED BY <1>1, <1>2 DEF t, Keep, RowsOn

\* Reading pull requests leaves the entries and their threads alone.
LEMMA WithPullThreadsReads ==
  ASSUME NEW s, NEW ps, IsStore(s)
  PROVE  LET t == WithPullThreads(s, ps) IN
         /\ IsStore(t) /\ t.entries = s.entries /\ t.comments = s.comments
         /\ t.reactions = s.reactions /\ t.entryReactions = s.entryReactions
BY DEF IsStore, Tables, WithPullThreads

\* A read keeps what is known, if what it read is known and alike.
LEMMA ReadKeeps ==
  ASSUME KnowInv, NEW at, NEW snap, NEW todo, Read(at, snap, todo), Known(snap),
         Alike(snap, remote), Alike(mirror, snap), PollInv', Confined', Covers',
         told \cap DOMAIN snap.entries \subseteq DOMAIN mirror.entries,
         told \cap DOMAIN snap.comments \subseteq DOMAIN mirror.comments
  PROVE  KnowInv'
<1>1. poll'.snap = snap /\ UNCHANGED <<remote, clock, born, toggling, mirror, told>>
  BY DEF Read, remoteVars
<1>2. RemoteInv' /\ Known(mirror)' /\ Rooted(mirror)' /\ Known(poll.snap)'
  BY <1>1 DEF KnowInv, RemoteInv, Known, Rooted, Timed
<1>3. Alike(mirror, remote)' /\ Alike(poll.snap, remote)' /\ Alike(mirror, poll.snap)'
  BY <1>1 DEF KnowInv
<1>4. ToldInv'
  BY <1>1 DEF KnowInv, ToldInv
<1> QED BY <1>2, <1>3, <1>4 DEF KnowInv

\* The first reads of a local poll know no thread yet.
LEMMA BareReadKnows ==
  ASSUME KnowInv, NEW at \in {"labels", "relations", "rows"}, NEW snap, Read(at, snap, {}), IsStore(snap),
         DOMAIN snap.comments = {}, DOMAIN snap.reactions = {}, DOMAIN snap.entryReactions = {},
         IF at = "rows" THEN snap.entries = remote.entries ELSE DOMAIN snap.entries = {}
  PROVE  KnowInv'
<1>1. poll' = [at |-> at, snap |-> snap, todo |-> {}] /\ UNCHANGED <<remote, clock, born, toggling, mirror, told>>
  BY DEF Read, remoteVars
<1>2. at \notin {"list"} \cup Entries /\ at # "ready" /\ at \in Stages
  BY SyncAssumption DEF Stages
<1>3. Got' = {} /\ Listed' = DOMAIN snap.entries
  BY <1>1, <1>2 DEF Got, Listed
<1>4. Known(snap)
  BY DEF KnowInv, RemoteInv, Known
<1>5. Alike(snap, remote) /\ Alike(mirror, snap)
  BY DEF Alike, Agree
<1>6. PollInv'
  BY <1>1, <1>2 DEF PollInv
<1>7. Confined'
  BY <1>1 DEF Confined
<1>8. Covers'
  BY <1>1, <1>3 DEF Covers
<1>9. /\ told \cap DOMAIN snap.entries \subseteq DOMAIN mirror.entries
      /\ told \cap DOMAIN snap.comments \subseteq DOMAIN mirror.comments
  BY DEF KnowInv, ToldInv
<1> QED BY <1>4, <1>5, <1>6, <1>7, <1>8, <1>9, ReadKeeps

\* The reads of a local poll.
LEMMA LocalReadsKnow ==
  ASSUME KnowInv, ReadLabels \/ ReadRelations \/ ReadRows \/ ReadChangedThreads
  PROVE  KnowInv'
<1>1. IsStore(poll.snap)
  BY DEF KnowInv, Known
<1>2. CASE ReadLabels
  <2> DEFINE snap == [EmptyStore EXCEPT !.labels = remote.labels]
  <2>1. /\ IsStore(snap) /\ DOMAIN snap.entries = {} /\ DOMAIN snap.comments = {}
        /\ DOMAIN snap.reactions = {} /\ DOMAIN snap.entryReactions = {}
    BY DEF EmptyStore, IsStore, Tables, NoRows
  <2>2. Read("labels", snap, {})
    BY <1>2 DEF ReadLabels
  <2> HIDE DEF snap
  <2> QED BY <2>1, <2>2, BareReadKnows
<1>3. ASSUME poll.at \in {"labels", "relations", "rows"}
      PROVE  /\ DOMAIN poll.snap.comments = {} /\ DOMAIN poll.snap.reactions = {}
             /\ DOMAIN poll.snap.entryReactions = {} /\ Got = {}
  <2>1. Got = {}
    BY <1>3, SyncAssumption DEF Got, Stages
  <2> QED BY <2>1 DEF KnowInv, Confined
<1>4. CASE ReadRelations
  <2> DEFINE snap == [poll.snap EXCEPT !.tags = remote.tags, !.pins = remote.pins,
                                       !.pullTags = remote.pullTags]
  <2>1. /\ IsStore(snap) /\ snap.entries = poll.snap.entries /\ snap.comments = poll.snap.comments
        /\ snap.reactions = poll.snap.reactions /\ snap.entryReactions = poll.snap.entryReactions
    BY <1>1 DEF IsStore, Tables
  <2>2. Read("relations", snap, {}) /\ poll.at = "labels"
    BY <1>4 DEF ReadRelations
  <2>3. DOMAIN snap.entries = {}
    BY <2>1, <2>2 DEF KnowInv, PollInv
  <2> HIDE DEF snap
  <2> QED BY <1>3, <2>1, <2>2, <2>3, BareReadKnows
<1>5. CASE ReadRows
  <2> DEFINE s    == [poll.snap EXCEPT !.entries = remote.entries, !.pulls = remote.pulls]
             snap == WithPullThreads(s, DOMAIN remote.pulls)
  <2>1. /\ IsStore(s) /\ s.entries = remote.entries /\ s.comments = poll.snap.comments
        /\ s.reactions = poll.snap.reactions /\ s.entryReactions = poll.snap.entryReactions
    BY <1>1 DEF IsStore, Tables
  <2>2. Read("rows", snap, {}) /\ poll.at = "relations"
    BY <1>5 DEF ReadRows
  <2> HIDE DEF s
  <2>3. /\ IsStore(snap) /\ snap.entries = s.entries /\ snap.comments = s.comments
        /\ snap.reactions = s.reactions /\ snap.entryReactions = s.entryReactions
    BY <2>1, WithPullThreadsReads
  <2> HIDE DEF snap
  <2> QED BY <1>3, <2>1, <2>2, <2>3, BareReadKnows
<1>6. CASE ReadChangedThreads
  <2> DEFINE changed == Changed(poll.snap)
             snap == WithThreads(poll.snap, changed)
  <2>1. Read("ready", snap, changed) /\ poll.at = "rows"
    BY <1>6 DEF ReadChangedThreads
  <2> HIDE DEF changed
  <2>2. /\ poll' = [at |-> "ready", snap |-> snap, todo |-> changed]
        /\ UNCHANGED <<remote, clock, born, toggling, mirror, told>>
    BY <2>1 DEF Read, remoteVars
  <2>3. /\ IsStore(snap) /\ snap.entries = poll.snap.entries
        /\ DOMAIN snap.comments = {c \in DOMAIN remote.comments : remote.comments[c].on \in changed}
        /\ DOMAIN snap.reactions =
             {r \in DOMAIN remote.reactions : remote.reactions[r].on \in DOMAIN snap.comments}
        /\ DOMAIN snap.entryReactions =
             {r \in DOMAIN remote.entryReactions : remote.entryReactions[r].on \in changed}
        /\ Alike(snap, remote)
    BY <1>1, <1>3, <2>1, WithThreadsReads DEF KnowInv
  <2> HIDE DEF snap
  <2>4. Known(snap)
    BY <2>3 DEF KnowInv, RemoteInv, Known
  <2>5. Alike(mirror, snap)
    BY <2>3 DEF KnowInv, Alike, Agree
  <2>6. "ready" \notin {"list"} \cup Entries
    BY SyncAssumption DEF Stages
  <2>7. Got' = changed /\ Listed' = DOMAIN snap.entries /\ Listed = DOMAIN poll.snap.entries
    BY <2>1, <2>2, <2>6, SyncAssumption DEF Got, Listed, Stages
  <2>8. PollInv'
    BY <2>2, <2>6 DEF PollInv, Stages
  <2>9. Confined'
    BY <2>2, <2>3, <2>7 DEF Confined, Alike, Agree
  <2>10. Covers'
    <3>1. (DOMAIN mirror.entries) \cap (DOMAIN remote.entries) \subseteq DOMAIN snap.entries
      BY <2>1, <2>3, <2>7 DEF KnowInv, Covers
    <3>2. ASSUME NEW e \in changed
          PROVE  On(mirror, e) \cap DOMAIN remote.comments \subseteq DOMAIN snap.comments
      BY <2>3 DEF On, KnowInv, Alike, Agree
    <3> QED BY <2>2, <2>7, <3>1, <3>2 DEF Covers, On
  <2>11. /\ told \cap DOMAIN snap.entries \subseteq DOMAIN mirror.entries
         /\ told \cap DOMAIN snap.comments \subseteq DOMAIN mirror.comments
    BY <2>3 DEF KnowInv, ToldInv
  <2> QED BY <2>1, <2>3, <2>4, <2>5, <2>8, <2>9, <2>10, <2>11, ReadKeeps
<1> QED BY <1>2, <1>4, <1>5, <1>6

\* The reads of a hosted poll.
LEMMA HostedReadsKnow ==
  ASSUME KnowInv, ListEntries \/ GetEntry \/ GetThread \/ GetPulls
  PROVE  KnowInv'
<1>1. IsStore(poll.snap) /\ Alike(poll.snap, remote) /\ Alike(mirror, poll.snap) /\ Alike(mirror, remote)
  BY DEF KnowInv, Known
<1>2. "list" \notin Entries /\ "ready" \notin Entries /\ "list" # "ready" /\ {"list", "ready"} \subseteq Stages
  BY SyncAssumption DEF Stages
<1>3. DOMAIN remote.entries \subseteq Entries /\ DOMAIN poll.snap.entries \subseteq Entries
  BY DEF KnowInv, RemoteInv, Known
<1>4. CASE ListEntries
  <2> DEFINE snap == [EmptyStore EXCEPT !.labels = remote.labels]
             todo == DOMAIN remote.entries
  <2>1. /\ IsStore(snap) /\ DOMAIN snap.entries = {} /\ DOMAIN snap.comments = {}
        /\ DOMAIN snap.reactions = {} /\ DOMAIN snap.entryReactions = {}
    BY DEF EmptyStore, IsStore, Tables, NoRows
  <2>2. Read("list", snap, todo)
    BY <1>4 DEF ListEntries
  <2> HIDE DEF snap
  <2>3. /\ poll' = [at |-> "list", snap |-> snap, todo |-> todo]
        /\ UNCHANGED <<remote, clock, born, toggling, mirror, told>>
    BY <2>2 DEF Read, remoteVars
  <2>4. Got' = {} /\ Listed' = todo
    BY <1>2, <2>1, <2>3 DEF Got, Listed
  <2>5. Known(snap) /\ Alike(snap, remote) /\ Alike(mirror, snap)
    BY <2>1 DEF Known, Alike, Agree
  <2>6. PollInv' /\ Confined'
    BY <1>2, <2>1, <2>3 DEF PollInv, Confined
  <2>7. Covers'
    BY <2>3, <2>4 DEF Covers
  <2> QED BY <2>1, <2>2, <2>5, <2>6, <2>7, ReadKeeps
<1>5. CASE GetEntry
  <2>1. PICK e \in poll.todo \cap DOMAIN remote.entries :
          LET ls == LabelsFor(remote, e) IN
          Read(e, [poll.snap EXCEPT !.entries = Put(@, e, remote.entries[e]),
                                    !.tags    = @ \cup ({e} \X ls),
                                    !.labels  = @ \cup ls], poll.todo \ {e})
    BY <1>5 DEF GetEntry
  <2> DEFINE snap == [poll.snap EXCEPT !.entries = Put(poll.snap.entries, e, remote.entries[e]),
                                       !.tags    = poll.snap.tags \cup ({e} \X LabelsFor(remote, e)),
                                       !.labels  = poll.snap.labels \cup LabelsFor(remote, e)]
             todo == poll.todo \ {e}
  <2>2. Read(e, snap, todo) /\ poll.at = "list"
    BY <1>5, <2>1 DEF GetEntry
  <2>3. /\ IsStore(snap) /\ snap.entries = Put(poll.snap.entries, e, remote.entries[e])
        /\ snap.comments = poll.snap.comments /\ snap.reactions = poll.snap.reactions
        /\ snap.entryReactions = poll.snap.entryReactions
    BY <1>1 DEF IsStore, Tables
  <2> HIDE DEF snap
  <2>4. DOMAIN snap.entries = (DOMAIN poll.snap.entries) \cup {e}
    BY <2>3 DEF Put
  <2>5. /\ poll' = [at |-> e, snap |-> snap, todo |-> todo]
        /\ UNCHANGED <<remote, clock, born, toggling, mirror, told>>
    BY <2>2 DEF Read, remoteVars
  <2>6. e \in Entries /\ e # "ready" /\ e \notin Stages
    BY <1>3, SyncAssumption, <1>2
  <2>7. poll.todo \cap DOMAIN poll.snap.entries = {} /\ "list" \notin DOMAIN poll.snap.entries
    BY <1>2, <1>3, <2>2 DEF KnowInv, PollInv
  <2>8. Got' = DOMAIN poll.snap.entries /\ Got = DOMAIN poll.snap.entries
    BY <1>2, <2>2, <2>4, <2>5, <2>6, <2>7 DEF Got
  <2>9. Listed' = Listed
    BY <2>2, <2>4, <2>5, <2>6 DEF Listed
  <2>10. Known(snap)
    BY <2>3, <2>4, <2>6 DEF KnowInv, RemoteInv, Known
  <2>11. Alike(snap, remote) /\ Alike(mirror, snap)
    BY <1>1, <2>3 DEF Alike
  <2>12. PollInv'
    BY <2>4, <2>5, <2>6, <2>7, <1>2 DEF PollInv, Stages
  <2>13. Confined'
    BY <2>3, <2>5, <2>8 DEF Confined, KnowInv
  <2>14. Covers'
    <3>1. (DOMAIN mirror.entries) \cap (DOMAIN remote.entries) \subseteq Listed
      BY <2>2 DEF KnowInv, Covers
    <3>2. \A d \in Got : On(mirror, d) \cap DOMAIN remote.comments \subseteq DOMAIN poll.snap.comments
      BY DEF KnowInv, Covers
    <3> QED BY <2>3, <2>5, <2>8, <2>9, <3>1, <3>2 DEF Covers, On
  <2>15. /\ told \cap DOMAIN snap.entries \subseteq DOMAIN mirror.entries
         /\ told \cap DOMAIN snap.comments \subseteq DOMAIN mirror.comments
    BY <2>3, <2>4 DEF KnowInv, ToldInv
  <2> QED BY <2>2, <2>10, <2>11, <2>12, <2>13, <2>14, <2>15, ReadKeeps
<1>6. CASE GetThread
  <2> DEFINE e    == poll.at
             snap == WithThreads(poll.snap, {e})
             todo == poll.todo
  <2>1. Read("list", snap, todo) /\ e \in DOMAIN remote.entries /\ e \in Entries
    BY <1>3, <1>6 DEF GetThread
  <2>2. /\ IsStore(snap) /\ snap.entries = poll.snap.entries
        /\ DOMAIN snap.comments =
             (DOMAIN poll.snap.comments) \cup {c \in DOMAIN remote.comments : remote.comments[c].on \in {e}}
        /\ DOMAIN snap.reactions =
             (DOMAIN poll.snap.reactions)
               \cup {r \in DOMAIN remote.reactions :
                       remote.reactions[r].on \in {c \in DOMAIN remote.comments : remote.comments[c].on \in {e}}}
        /\ DOMAIN snap.entryReactions =
             (DOMAIN poll.snap.entryReactions)
               \cup {r \in DOMAIN remote.entryReactions : remote.entryReactions[r].on \in {e}}
        /\ Alike(snap, poll.snap) /\ Alike(snap, remote)
    BY <1>1, WithThreadsReads
  <2> HIDE DEF snap
  <2>3. /\ poll' = [at |-> "list", snap |-> snap, todo |-> todo]
        /\ UNCHANGED <<remote, clock, born, toggling, mirror, told>>
    BY <2>1 DEF Read, remoteVars
  <2>4. e \in DOMAIN poll.snap.entries /\ e # "ready" /\ "list" \notin DOMAIN poll.snap.entries
        /\ todo \cap DOMAIN poll.snap.entries = {}
    BY <1>2, <1>3, <2>1 DEF KnowInv, PollInv
  <2>5. Got' = DOMAIN poll.snap.entries /\ Got = DOMAIN poll.snap.entries \ {e} /\ Listed' = Listed
    BY <1>2, <2>1, <2>2, <2>3, <2>4 DEF Got, Listed
  <2>6. Known(snap)
    BY <2>2 DEF KnowInv, RemoteInv, Known
  <2>7. Alike(mirror, snap)
    BY <1>1, <2>2 DEF Alike, Agree
  <2>8. PollInv'
    BY <1>2, <2>2, <2>3, <2>4 DEF PollInv, Stages
  <2>9. Confined'
    <3>1. \A c \in DOMAIN snap.comments : snap.comments[c].on \in DOMAIN poll.snap.entries
      BY <2>2, <2>4, <2>5 DEF KnowInv, Confined, Alike, Agree
    <3>2. \A r \in DOMAIN snap.reactions : snap.reactions[r].on \in DOMAIN snap.comments
      BY <2>2 DEF KnowInv, Confined, Alike, Agree
    <3>3. \A r \in DOMAIN snap.entryReactions : snap.entryReactions[r].on \in DOMAIN poll.snap.entries
      BY <2>2, <2>4, <2>5 DEF KnowInv, Confined, Alike, Agree
    <3> QED BY <2>3, <2>5, <3>1, <3>2, <3>3 DEF Confined
  <2>10. Covers'
    <3>1. (DOMAIN mirror.entries) \cap (DOMAIN remote.entries) \subseteq Listed
      BY <1>2, <2>1, SyncAssumption DEF KnowInv, Covers, Stages
    <3>2. \A d \in Got : On(mirror, d) \cap DOMAIN remote.comments \subseteq DOMAIN poll.snap.comments
      BY DEF KnowInv, Covers
    <3>3. On(mirror, e) \cap DOMAIN remote.comments \subseteq DOMAIN snap.comments
      BY <1>1, <2>2 DEF On, Alike, Agree
    <3> QED BY <2>2, <2>3, <2>5, <3>1, <3>2, <3>3 DEF Covers, On
  <2>11. /\ told \cap DOMAIN snap.entries \subseteq DOMAIN mirror.entries
         /\ told \cap DOMAIN snap.comments \subseteq DOMAIN mirror.comments
    BY <2>2 DEF KnowInv, ToldInv
  <2> QED BY <2>1, <2>2, <2>6, <2>7, <2>8, <2>9, <2>10, <2>11, ReadKeeps
<1>7. CASE GetPulls
  <2> DEFINE s       == [poll.snap EXCEPT !.pulls    = remote.pulls,
                                          !.pullTags = remote.pullTags,
                                          !.labels   = poll.snap.labels \cup {t[2] : t \in remote.pullTags}]
             all     == WithPullThreads(s, DOMAIN remote.pulls)
             changed == Changed(all)
             snap    == OnlyThreads(all, changed)
  <2>1. Read("ready", snap, changed) /\ poll.at = "list" /\ poll.todo = {}
    BY <1>7 DEF GetPulls
  <2>2. /\ IsStore(s) /\ s.entries = poll.snap.entries /\ s.comments = poll.snap.comments
        /\ s.reactions = poll.snap.reactions /\ s.entryReactions = poll.snap.entryReactions
    BY <1>1 DEF IsStore, Tables
  <2> HIDE DEF s
  <2>3. /\ IsStore(all) /\ all.entries = s.entries /\ all.comments = s.comments
        /\ all.reactions = s.reactions /\ all.entryReactions = s.entryReactions
    BY <2>2, WithPullThreadsReads
  <2> HIDE DEF all, changed
  <2>4. /\ IsStore(snap) /\ snap.entries = all.entries
        /\ DOMAIN snap.comments = {c \in DOMAIN all.comments : all.comments[c].on \in changed}
        /\ DOMAIN snap.reactions =
             {r \in DOMAIN all.reactions :
                all.reactions[r].on \in {c \in DOMAIN all.comments : all.comments[c].on \in changed}}
        /\ DOMAIN snap.entryReactions =
             {r \in DOMAIN all.entryReactions : all.entryReactions[r].on \in changed}
        /\ \A c \in DOMAIN snap.comments : snap.comments[c] = all.comments[c]
        /\ \A r \in DOMAIN snap.reactions : snap.reactions[r] = all.reactions[r]
        /\ \A r \in DOMAIN snap.entryReactions : snap.entryReactions[r] = all.entryReactions[r]
    BY <2>3, OnlyThreadsKeeps
  <2> HIDE DEF snap
  <2>5. /\ poll' = [at |-> "ready", snap |-> snap, todo |-> changed]
        /\ UNCHANGED <<remote, clock, born, toggling, mirror, told>>
    BY <2>1 DEF Read, remoteVars
  <2>6. /\ Got' = changed /\ Listed' = DOMAIN snap.entries
        /\ Got = DOMAIN poll.snap.entries /\ Listed = DOMAIN poll.snap.entries
    BY <1>2, <1>3, <2>1, <2>5 DEF Got, Listed
  <2>7. Known(snap)
    BY <2>2, <2>3, <2>4 DEF KnowInv, Known
  <2>8. Alike(snap, remote) /\ Alike(mirror, snap)
    BY <1>1, <2>2, <2>3, <2>4 DEF Alike, Agree
  <2>9. PollInv'
    BY <1>2, <2>5 DEF PollInv, Stages
  <2>10. Confined'
    BY <2>4, <2>5, <2>6 DEF Confined
  <2>11. Covers'
    <3>1. (DOMAIN mirror.entries) \cap (DOMAIN remote.entries) \subseteq DOMAIN snap.entries
      BY <2>1, <2>2, <2>3, <2>4, <2>6 DEF KnowInv, Covers
    <3>2. ASSUME NEW e \in changed, NEW c \in On(mirror, e) \cap DOMAIN remote.comments
          PROVE  c \in DOMAIN snap.comments
      <4>1. mirror.comments[c].on = e /\ remote.comments[c] = mirror.comments[c] /\ c \in DOMAIN mirror.comments
        BY <1>1, <3>2 DEF On, Alike, Agree
      <4>2. e \in DOMAIN mirror.entries /\ e \in DOMAIN remote.entries
        BY <3>2, <4>1 DEF KnowInv, RemoteInv, Rooted
      <4>3. e \in Got
        BY <2>2, <2>3, <2>4, <2>6, <3>1, <4>2
      <4>4. c \in DOMAIN poll.snap.comments
        BY <3>2, <4>3 DEF KnowInv, Covers
      <4>5. poll.snap.comments[c].on = e
        BY <1>1, <4>1, <4>4 DEF Alike, Agree
      <4> QED BY <2>2, <2>3, <2>4, <4>4, <4>5
    <3> QED BY <2>5, <2>6, <3>1, <3>2 DEF Covers, On
  <2>12. /\ told \cap DOMAIN snap.entries \subseteq DOMAIN mirror.entries
         /\ told \cap DOMAIN snap.comments \subseteq DOMAIN mirror.comments
    BY <2>2, <2>3, <2>4 DEF KnowInv, ToldInv
  <2> QED BY <2>1, <2>7, <2>8, <2>9, <2>10, <2>11, <2>12, ReadKeeps
<1> QED BY <1>4, <1>5, <1>6, <1>7

----------------------------------------------------------------------------
(* The commit *)

\* Copying rows into a table: every row of either, with the times of the source.
LEMMA CopiedRows ==
  ASSUME NEW source, NEW target
  PROVE  LET f == Copied(source, target) IN
         /\ DOMAIN f = (DOMAIN source) \cup DOMAIN target
         /\ \A x \in DOMAIN source :
              \/ f[x] = source[x]
              \/ x \in DOMAIN target /\ f[x] = target[x] /\ target[x].stamp = source[x].stamp
         /\ Agree(target, source) => Agree(f, source) /\ Agree(f, target)
<1> DEFINE ks == {x \in DOMAIN source : x \notin DOMAIN target \/ target[x].stamp # source[x].stamp}
           g == Keep(source, ks)
           f == Overlay(target, g)
<1>1. DOMAIN g = ks /\ \A x \in ks : g[x] = source[x]
  BY DEF Keep
<1> HIDE DEF g
<1>2. DOMAIN f = (DOMAIN target) \cup DOMAIN g /\ \A x \in DOMAIN f : f[x] = IF x \in DOMAIN g THEN g[x] ELSE target[x]
  BY DEF Overlay
<1>3. f = Copied(source, target)
  BY DEF Copied, g
<1> HIDE DEF f
<1>4. DOMAIN f = (DOMAIN source) \cup DOMAIN target
  BY <1>1, <1>2
<1>5. \A x \in DOMAIN source :
        \/ f[x] = source[x]
        \/ x \in DOMAIN target /\ f[x] = target[x] /\ target[x].stamp = source[x].stamp
  BY <1>1, <1>2
<1>6. Agree(target, source) => Agree(f, source) /\ Agree(f, target)
  BY <1>1, <1>2 DEF Agree
<1> QED BY <1>3, <1>4, <1>5, <1>6

\* What the inserts and updates make of the tables of entries and threads.
LEMMA FilledTables ==
  ASSUME NEW s, IsStore(mirror)
  PROVE  LET t == Filled(s) IN
         /\ IsStore(t)
         /\ t.entries = Copied(s.entries, mirror.entries)
         /\ t.comments = Copied(s.comments, mirror.comments)
         /\ t.reactions = Overlay(mirror.reactions, s.reactions)
         /\ t.entryReactions = Overlay(mirror.entryReactions, s.entryReactions)
         /\ t.labels = mirror.labels \cup s.labels /\ t.tags = mirror.tags \cup s.tags
<1> DEFINE a == SyncLabels(mirror, s)
           b == SyncEntries(a, s)
           c == SyncEntryLabels(b, s)
           d == SyncComments(c, s)
           e == SyncReactions(d, s)
           f == SyncPullRequests(e, s)
           g == SyncPullThreads(f, s)
<1>1. /\ IsStore(a) /\ a.entries = mirror.entries /\ a.comments = mirror.comments
      /\ a.reactions = mirror.reactions /\ a.entryReactions = mirror.entryReactions
      /\ a.labels = mirror.labels \cup s.labels /\ a.tags = mirror.tags
  BY DEF IsStore, Tables, SyncLabels
<1> HIDE DEF a
<1>2. /\ IsStore(b) /\ b.entries = Copied(s.entries, a.entries) /\ b.comments = a.comments
      /\ b.reactions = a.reactions /\ b.entryReactions = a.entryReactions
      /\ b.labels = a.labels /\ b.tags = a.tags
  BY <1>1 DEF IsStore, Tables, SyncEntries
<1> HIDE DEF b
<1>3. /\ IsStore(c) /\ c.entries = b.entries /\ c.comments = b.comments
      /\ c.reactions = b.reactions /\ c.entryReactions = b.entryReactions
      /\ c.labels = b.labels /\ c.tags = b.tags \cup s.tags
  BY <1>2 DEF IsStore, Tables, SyncEntryLabels
<1> HIDE DEF c
<1>4. /\ IsStore(d) /\ d.entries = c.entries /\ d.comments = Copied(s.comments, c.comments)
      /\ d.reactions = c.reactions /\ d.entryReactions = c.entryReactions
      /\ d.labels = c.labels /\ d.tags = c.tags
  BY <1>3 DEF IsStore, Tables, SyncComments
<1> HIDE DEF d
<1>5. /\ IsStore(e) /\ e.entries = d.entries /\ e.comments = d.comments
      /\ e.reactions = Overlay(d.reactions, s.reactions)
      /\ e.entryReactions = Overlay(d.entryReactions, s.entryReactions)
      /\ e.labels = d.labels /\ e.tags = d.tags
  BY <1>4 DEF IsStore, Tables, SyncReactions
<1> HIDE DEF e
<1>6. /\ IsStore(f) /\ f.entries = e.entries /\ f.comments = e.comments
      /\ f.reactions = e.reactions /\ f.entryReactions = e.entryReactions
      /\ f.labels = e.labels /\ f.tags = e.tags
  BY <1>5 DEF IsStore, Tables, SyncPullRequests
<1> HIDE DEF f
<1>7. /\ IsStore(g) /\ g.entries = f.entries /\ g.comments = f.comments
      /\ g.reactions = f.reactions /\ g.entryReactions = f.entryReactions
      /\ g.labels = f.labels /\ g.tags = f.tags
  BY <1>6 DEF IsStore, Tables, SyncPullThreads
<1> HIDE DEF g
<1>8. g = Filled(s)
  BY DEF Filled, a, b, c, d, e, f, g
<1> QED BY <1>1, <1>2, <1>3, <1>4, <1>5, <1>6, <1>7, <1>8

\* The rows the mirror has after a commit.
LEMMA CommittedTables ==
  ASSUME NEW s, NEW es, IsStore(mirror), IsStore(s), Alike(mirror, s)
  PROVE  LET t == Pruned(Filled(s), s, es) IN
         /\ IsStore(t) /\ Rooted(t)
         /\ DOMAIN t.entries = DOMAIN s.entries
         /\ \A e \in DOMAIN s.entries :
              \/ t.entries[e] = s.entries[e]
              \/ /\ e \in DOMAIN mirror.entries
                 /\ t.entries[e] = mirror.entries[e] /\ mirror.entries[e].stamp = s.entries[e].stamp
         /\ Alike(t, s) /\ Alike(t, mirror)
         /\ \A c : c \in DOMAIN t.comments <=>
              \/ c \in DOMAIN s.comments /\ s.comments[c].on \in DOMAIN s.entries
              \/ /\ c \in DOMAIN mirror.comments /\ mirror.comments[c].on \in DOMAIN s.entries
                 /\ mirror.comments[c].on \notin es
         /\ \A r : r \in DOMAIN t.reactions <=>
              \/ r \in DOMAIN s.reactions /\ s.reactions[r].on \in DOMAIN t.comments
              \/ /\ r \in DOMAIN mirror.reactions /\ mirror.reactions[r].on \in DOMAIN t.comments
                 /\ ~ \E c \in DOMAIN mirror.comments :
                        mirror.reactions[r].on = c /\ mirror.comments[c].on \in es
         /\ \A r : r \in DOMAIN t.entryReactions <=>
              \/ r \in DOMAIN s.entryReactions /\ s.entryReactions[r].on \in DOMAIN s.entries
              \/ /\ r \in DOMAIN mirror.entryReactions /\ mirror.entryReactions[r].on \in DOMAIN s.entries
                 /\ mirror.entryReactions[r].on \notin es
<1> DEFINE w == Filled(s)
           ours == OnlyThreads(mirror, es)
           gone == Removed(s, es)
           u == [w EXCEPT !.labels         = s.labels,
                          !.entries        = Keep(w.entries, DOMAIN s.entries),
                          !.tags           = s.tags,
                          !.pins           = s.pins,
                          !.comments       = Keep(w.comments, (DOMAIN w.comments) \ gone.comments),
                          !.reactions      = Keep(w.reactions, (DOMAIN w.reactions) \ gone.reactions),
                          !.entryReactions = Keep(w.entryReactions,
                                                  (DOMAIN w.entryReactions) \ gone.entryReactions),
                          !.pulls          = Keep(w.pulls, DOMAIN s.pulls),
                          !.pullTags       = s.pullTags,
                          !.pullComments   = Keep(w.pullComments, DOMAIN s.pullComments),
                          !.pullReactions  = Keep(w.pullReactions, DOMAIN s.pullReactions)]
           t == Cascade(u)
<1>1. /\ IsStore(w)
      /\ w.entries = Copied(s.entries, mirror.entries)
      /\ w.comments = Copied(s.comments, mirror.comments)
      /\ w.reactions = Overlay(mirror.reactions, s.reactions)
      /\ w.entryReactions = Overlay(mirror.entryReactions, s.entryReactions)
  BY FilledTables
<1>2. /\ gone.comments = (DOMAIN ours.comments) \ DOMAIN s.comments
      /\ gone.reactions = (DOMAIN ours.reactions) \ DOMAIN s.reactions
      /\ gone.entryReactions = (DOMAIN ours.entryReactions) \ DOMAIN s.entryReactions
  BY DEF Removed
<1>3. t = Pruned(w, s, es)
  BY DEF Pruned
<1> HIDE DEF w, gone
<1>4. /\ IsStore(u) /\ u.entries = Keep(w.entries, DOMAIN s.entries)
      /\ u.comments = Keep(w.comments, (DOMAIN w.comments) \ gone.comments)
      /\ u.reactions = Keep(w.reactions, (DOMAIN w.reactions) \ gone.reactions)
      /\ u.entryReactions = Keep(w.entryReactions, (DOMAIN w.entryReactions) \ gone.entryReactions)
  BY <1>1 DEF IsStore, Tables
<1> HIDE DEF u
<1>5. /\ IsStore(t) /\ Rooted(t) /\ t.entries = u.entries
      /\ DOMAIN t.comments = {c \in DOMAIN u.comments : u.comments[c].on \in DOMAIN u.entries}
      /\ DOMAIN t.reactions = {r \in DOMAIN u.reactions : u.reactions[r].on \in DOMAIN t.comments}
      /\ DOMAIN t.entryReactions =
           {r \in DOMAIN u.entryReactions : u.entryReactions[r].on \in DOMAIN u.entries}
      /\ Agree(t.comments, u.comments) /\ Agree(t.reactions, u.reactions)
      /\ Agree(t.entryReactions, u.entryReactions)
  BY <1>4, CascadeRooted
<1> HIDE DEF t
<1>6. /\ DOMAIN ours.comments = {c \in DOMAIN mirror.comments : mirror.comments[c].on \in es}
      /\ DOMAIN ours.reactions =
           {r \in DOMAIN mirror.reactions :
              mirror.reactions[r].on \in {c \in DOMAIN mirror.comments : mirror.comments[c].on \in es}}
      /\ DOMAIN ours.entryReactions =
           {r \in DOMAIN mirror.entryReactions : mirror.entryReactions[r].on \in es}
  BY OnlyThreadsKeeps
<1> HIDE DEF ours
<1>7. /\ DOMAIN t.entries = DOMAIN s.entries
      /\ \A e \in DOMAIN s.entries :
           \/ t.entries[e] = s.entries[e]
           \/ /\ e \in DOMAIN mirror.entries
              /\ t.entries[e] = mirror.entries[e] /\ mirror.entries[e].stamp = s.entries[e].stamp
  <2> DEFINE f == Copied(s.entries, mirror.entries)
  <2>1. /\ DOMAIN f = (DOMAIN s.entries) \cup DOMAIN mirror.entries
        /\ \A x \in DOMAIN s.entries :
             \/ f[x] = s.entries[x]
             \/ /\ x \in DOMAIN mirror.entries /\ f[x] = mirror.entries[x]
                /\ mirror.entries[x].stamp = s.entries[x].stamp
    BY CopiedRows
  <2>2. t.entries = Keep(f, DOMAIN s.entries)
    BY <1>1, <1>4, <1>5
  <2> HIDE DEF f
  <2> QED BY <2>1, <2>2 DEF Keep
<1>8. /\ DOMAIN w.comments = (DOMAIN s.comments) \cup DOMAIN mirror.comments
      /\ Agree(w.comments, s.comments) /\ Agree(w.comments, mirror.comments)
  <2> DEFINE f == Copied(s.comments, mirror.comments)
  <2>1. Agree(mirror.comments, s.comments)
    BY DEF Alike
  <2>2. DOMAIN f = (DOMAIN s.comments) \cup DOMAIN mirror.comments
        /\ Agree(f, s.comments) /\ Agree(f, mirror.comments)
    BY <2>1, CopiedRows
  <2> QED BY <1>1, <2>2
<1>9. /\ DOMAIN w.reactions = (DOMAIN s.reactions) \cup DOMAIN mirror.reactions
      /\ Agree(w.reactions, s.reactions) /\ Agree(w.reactions, mirror.reactions)
  <2> DEFINE o == Overlay(mirror.reactions, s.reactions)
  <2>1. DOMAIN o = (DOMAIN s.reactions) \cup DOMAIN mirror.reactions
        /\ \A x \in DOMAIN o : o[x] = IF x \in DOMAIN s.reactions THEN s.reactions[x] ELSE mirror.reactions[x]
    BY DEF Overlay
  <2> HIDE DEF o
  <2> QED BY <1>1, <2>1 DEF Alike, Agree, o
<1>10. /\ DOMAIN w.entryReactions = (DOMAIN s.entryReactions) \cup DOMAIN mirror.entryReactions
       /\ Agree(w.entryReactions, s.entryReactions) /\ Agree(w.entryReactions, mirror.entryReactions)
  <2> DEFINE o == Overlay(mirror.entryReactions, s.entryReactions)
  <2>1. DOMAIN o = (DOMAIN s.entryReactions) \cup DOMAIN mirror.entryReactions
        /\ \A x \in DOMAIN o :
             o[x] = IF x \in DOMAIN s.entryReactions THEN s.entryReactions[x] ELSE mirror.entryReactions[x]
    BY DEF Overlay
  <2> HIDE DEF o
  <2> QED BY <1>1, <2>1 DEF Alike, Agree, o
<1>11. /\ \A c : c \in DOMAIN t.comments <=>
            \/ c \in DOMAIN s.comments /\ s.comments[c].on \in DOMAIN s.entries
            \/ /\ c \in DOMAIN mirror.comments /\ mirror.comments[c].on \in DOMAIN s.entries
               /\ mirror.comments[c].on \notin es
       /\ Agree(t.comments, s.comments) /\ Agree(t.comments, mirror.comments)
  <2>1. /\ DOMAIN u.comments = (DOMAIN w.comments) \ gone.comments
        /\ \A c \in DOMAIN u.comments : u.comments[c] = w.comments[c]
    BY <1>4 DEF Keep
  <2>2. \A c \in DOMAIN t.comments : c \in DOMAIN w.comments /\ t.comments[c] = w.comments[c]
    BY <1>5, <2>1 DEF Agree
  <2>3. Agree(t.comments, s.comments) /\ Agree(t.comments, mirror.comments)
    BY <1>8, <2>2 DEF Agree
  <2>4. DOMAIN u.entries = DOMAIN s.entries
    BY <1>5, <1>7
  <2> QED BY <1>2, <1>5, <1>6, <1>8, <2>1, <2>3, <2>4 DEF Alike, Agree
<1>12. /\ \A r : r \in DOMAIN t.reactions <=>
            \/ r \in DOMAIN s.reactions /\ s.reactions[r].on \in DOMAIN t.comments
            \/ /\ r \in DOMAIN mirror.reactions /\ mirror.reactions[r].on \in DOMAIN t.comments
               /\ ~ \E c \in DOMAIN mirror.comments :
                      mirror.reactions[r].on = c /\ mirror.comments[c].on \in es
       /\ Agree(t.reactions, s.reactions) /\ Agree(t.reactions, mirror.reactions)
  <2>1. /\ DOMAIN u.reactions = (DOMAIN w.reactions) \ gone.reactions
        /\ \A c \in DOMAIN u.reactions : u.reactions[c] = w.reactions[c]
    BY <1>4 DEF Keep
  <2>2. \A c \in DOMAIN t.reactions : c \in DOMAIN w.reactions /\ t.reactions[c] = w.reactions[c]
    BY <1>5, <2>1 DEF Agree
  <2>3. Agree(t.reactions, s.reactions) /\ Agree(t.reactions, mirror.reactions)
    BY <1>9, <2>2 DEF Agree
  <2> QED BY <1>2, <1>5, <1>6, <1>9, <2>1, <2>3 DEF Alike, Agree
<1>13. /\ \A r : r \in DOMAIN t.entryReactions <=>
            \/ r \in DOMAIN s.entryReactions /\ s.entryReactions[r].on \in DOMAIN s.entries
            \/ /\ r \in DOMAIN mirror.entryReactions /\ mirror.entryReactions[r].on \in DOMAIN s.entries
               /\ mirror.entryReactions[r].on \notin es
       /\ Agree(t.entryReactions, s.entryReactions) /\ Agree(t.entryReactions, mirror.entryReactions)
  <2>1. /\ DOMAIN u.entryReactions = (DOMAIN w.entryReactions) \ gone.entryReactions
        /\ \A c \in DOMAIN u.entryReactions : u.entryReactions[c] = w.entryReactions[c]
    BY <1>4 DEF Keep
  <2>2. \A c \in DOMAIN t.entryReactions :
          c \in DOMAIN w.entryReactions /\ t.entryReactions[c] = w.entryReactions[c]
    BY <1>5, <2>1 DEF Agree
  <2>3. Agree(t.entryReactions, s.entryReactions) /\ Agree(t.entryReactions, mirror.entryReactions)
    BY <1>10, <2>2 DEF Agree
  <2>4. DOMAIN u.entries = DOMAIN s.entries
    BY <1>5, <1>7
  <2> QED BY <1>2, <1>5, <1>6, <1>10, <2>1, <2>3, <2>4 DEF Alike, Agree
<1> QED BY <1>3, <1>5, <1>7, <1>11, <1>12, <1>13 DEF w, Alike

\* A poll that ends, whatever it leaves the mirror with.
LEMMA IdleKnows ==
  ASSUME RemoteInv', poll' = Idle, Known(mirror)', Rooted(mirror)', Alike(mirror, remote)',
         told' \subseteq born', told' \cap DOMAIN remote'.entries \subseteq DOMAIN mirror'.entries,
         told' \cap DOMAIN remote'.comments \subseteq DOMAIN mirror'.comments
  PROVE  KnowInv'
<1>1. /\ IsStore(poll'.snap) /\ DOMAIN poll'.snap.entries = {} /\ DOMAIN poll'.snap.comments = {}
      /\ DOMAIN poll'.snap.reactions = {} /\ DOMAIN poll'.snap.entryReactions = {}
      /\ poll'.at = "idle"
  BY DEF Idle, EmptyStore, IsStore, Tables, NoRows
<1>2. "idle" \notin {"list"} \cup Entries /\ "idle" \in Stages /\ "idle" # "ready"
  BY SyncAssumption DEF Stages
<1>3. Known(poll.snap)' /\ Alike(poll.snap, remote)' /\ Alike(mirror, poll.snap)'
  BY <1>1 DEF Known, Alike, Agree
<1>4. PollInv' /\ Confined'
  BY <1>1, <1>2 DEF PollInv, Confined
<1>5. Got' = {}
  BY <1>1, <1>2 DEF Got
<1>6. Covers'
  BY <1>1, <1>5 DEF Covers
<1>7. ToldInv'
  BY <1>1 DEF ToldInv
<1> QED BY <1>3, <1>4, <1>6, <1>7 DEF KnowInv

\* A poll that is given up.
LEMMA AbortKnows ==
  ASSUME KnowInv, poll' = Idle, UNCHANGED <<remoteVars, mirror, told>>
  PROVE  KnowInv'
<1>1. RemoteInv' /\ Known(mirror)' /\ Rooted(mirror)' /\ Alike(mirror, remote)'
  BY DEF KnowInv, remoteVars, RemoteInv, Known, Rooted, Timed, Alike
<1>2. told' \subseteq born' /\ told' \cap DOMAIN remote'.entries \subseteq DOMAIN mirror'.entries
      /\ told' \cap DOMAIN remote'.comments \subseteq DOMAIN mirror'.comments
  BY DEF KnowInv, remoteVars, ToldInv
<1> QED BY <1>1, <1>2, IdleKnows

\* What a commit reports as new was in no store before, and is in the mirror after it, if the
\* remote still has it: a comment whose entry the poll has not read rolls the commit back.
LEMMA CommitKnows ==
  ASSUME KnowInv, Commit
  PROVE  KnowInv'
<1> DEFINE s  == poll.snap
           es == poll.todo
<1>1. poll.at = "ready" /\ poll' = Idle /\ UNCHANGED remoteVars
  BY DEF Commit
<1>2. CASE ~ ForeignKeys(Filled(s))
  <2>1. UNCHANGED <<mirror, told>>
    BY <1>2 DEF Commit
  <2> QED BY <1>1, <2>1, AbortKnows
<1>3. CASE ForeignKeys(Filled(s))
  <2>1. mirror' = Pruned(Filled(s), s, es)
    BY <1>3 DEF Commit
  <2>2. told' = told \cup {c.id : c \in {d \in Differences(s, es) : d.type \in {"entry", "comment"}
                                                                    /\ d.act = "create"}}
    BY <1>3 DEF Commit
  <2>3. IsStore(mirror) /\ IsStore(s) /\ Alike(mirror, s) /\ Alike(mirror, remote) /\ Alike(s, remote)
    BY DEF KnowInv, Known
  <2>4. Got = es /\ Listed = DOMAIN s.entries
    BY <1>1, SyncAssumption DEF Got, Listed, Stages
  <2>5. told' \subseteq told \cup (DOMAIN s.entries) \cup {c \in DOMAIN s.comments : c \notin DOMAIN mirror.comments}
    BY <2>2 DEF Differences, EntryChanges, LabelChanges, ThreadChanges, Change
  <2>6. \A c \in DOMAIN s.comments : s.comments[c].on \in (DOMAIN s.entries) \cup DOMAIN mirror.entries
    <3> DEFINE w == Filled(s)
    <3>1. /\ IsStore(w) /\ w.entries = Copied(s.entries, mirror.entries)
          /\ w.comments = Copied(s.comments, mirror.comments)
      BY <2>3, FilledTables
    <3>2. w = Cascade(w)
      BY <1>3 DEF ForeignKeys
    <3> HIDE DEF w
    <3>3. Rooted(w)
      BY <3>1, <3>2, CascadeRooted
    <3> DEFINE f == Copied(s.entries, mirror.entries)
               g == Copied(s.comments, mirror.comments)
    <3>4. DOMAIN f = (DOMAIN s.entries) \cup DOMAIN mirror.entries
      BY DEF Copied, Overlay, Keep
    <3>5. Agree(mirror.comments, s.comments)
      BY <2>3 DEF Alike
    <3>6. DOMAIN g = (DOMAIN s.comments) \cup DOMAIN mirror.comments /\ Agree(g, s.comments)
      BY <3>5, CopiedRows
    <3> QED BY <3>1, <3>3, <3>4, <3>6 DEF Rooted, Agree
  <2> DEFINE t == Pruned(Filled(s), s, es)
  <2>7. /\ IsStore(t) /\ Rooted(t) /\ DOMAIN t.entries = DOMAIN s.entries
        /\ Alike(t, s) /\ Alike(t, mirror)
        /\ \A c : c \in DOMAIN t.comments <=>
             \/ c \in DOMAIN s.comments /\ s.comments[c].on \in DOMAIN s.entries
             \/ /\ c \in DOMAIN mirror.comments /\ mirror.comments[c].on \in DOMAIN s.entries
                /\ mirror.comments[c].on \notin es
        /\ \A r : r \in DOMAIN t.reactions =>
             r \in DOMAIN s.reactions \/ r \in DOMAIN mirror.reactions
        /\ \A r : r \in DOMAIN t.entryReactions =>
             r \in DOMAIN s.entryReactions \/ r \in DOMAIN mirror.entryReactions
    BY <2>3, CommittedTables
  <2> HIDE DEF t
  <2>8. mirror' = t
    BY <2>1 DEF t
  <2>9. Known(t)
    BY <2>7 DEF KnowInv, Known
  <2>10. Alike(t, remote)
    BY <2>3, <2>7 DEF Alike, Agree
  <2>11. (DOMAIN mirror.entries) \cap (DOMAIN remote.entries) \subseteq DOMAIN s.entries
    BY <1>1, <2>4 DEF KnowInv, Covers
  <2>12. told' \subseteq born
    BY <2>5 DEF KnowInv, Known, ToldInv
  <2>13. told' \cap DOMAIN remote.entries \subseteq DOMAIN t.entries
    <3>1. told \cap DOMAIN remote.entries \subseteq DOMAIN s.entries
      BY <2>11 DEF KnowInv, ToldInv
    <3>2. (DOMAIN s.comments) \cap DOMAIN remote.entries = {}
      BY SyncAssumption DEF KnowInv, RemoteInv, Known
    <3> QED BY <2>5, <2>7, <3>1, <3>2
  <2>14. told' \cap DOMAIN remote.comments \subseteq DOMAIN t.comments
    <3> SUFFICES ASSUME NEW c \in told' \cap DOMAIN remote.comments
                 PROVE  c \in DOMAIN t.comments
      OBVIOUS
    <3> DEFINE e == remote.comments[c].on
    <3>1. e \in DOMAIN remote.entries
      BY DEF KnowInv, RemoteInv, Rooted
    <3>2. CASE c \in DOMAIN mirror.comments
      <4>1. mirror.comments[c].on = e
        BY <2>3, <3>2 DEF Alike, Agree
      <4>2. e \in DOMAIN s.entries
        BY <2>11, <3>1, <3>2, <4>1 DEF KnowInv, Rooted
      <4>3. e \in es => c \in DOMAIN s.comments
        BY <2>4, <3>2, <4>1 DEF KnowInv, Covers, On
      <4>4. c \in DOMAIN s.comments => s.comments[c].on = e
        BY <2>3 DEF Alike, Agree
      <4> QED BY <2>7, <3>2, <4>1, <4>2, <4>3, <4>4
    <3>3. CASE c \notin DOMAIN mirror.comments
      <4>1. c \notin DOMAIN s.entries
        BY SyncAssumption DEF KnowInv, RemoteInv, Known
      <4>2. c \in DOMAIN s.comments
        BY <2>5, <3>3, <4>1 DEF KnowInv, ToldInv
      <4>3. s.comments[c].on = e
        BY <2>3, <4>2 DEF Alike, Agree
      <4>4. e \in DOMAIN s.entries
        BY <2>6, <2>11, <3>1, <4>2, <4>3
      <4> QED BY <2>7, <4>2, <4>3, <4>4
    <3> QED BY <3>2, <3>3
  <2>15. RemoteInv'
    BY <1>1 DEF KnowInv, remoteVars, RemoteInv, Known, Rooted, Timed
  <2>16. Known(mirror)' /\ Rooted(mirror)' /\ Alike(mirror, remote)'
    BY <1>1, <2>7, <2>8, <2>9, <2>10 DEF remoteVars, Known, Rooted
  <2>17. /\ told' \subseteq born' /\ told' \cap DOMAIN remote'.entries \subseteq DOMAIN mirror'.entries
         /\ told' \cap DOMAIN remote'.comments \subseteq DOMAIN mirror'.comments
    BY <1>1, <2>8, <2>12, <2>13, <2>14 DEF remoteVars
  <2> QED BY <1>1, <2>15, <2>16, <2>17, IdleKnows
<1> QED BY <1>2, <1>3

----------------------------------------------------------------------------
(* What the times tell *)

\* A read keeps what the times tell, if it tells the truth of what it read.
LEMMA ReadTells ==
  ASSUME StampInv, NEW at, NEW snap, NEW todo, Read(at, snap, todo), Timed(snap), SkipsOld',
         Tells(snap, remote, toggling, Got')
  PROVE  StampInv'
<1>1. poll'.snap = snap /\ UNCHANGED <<remote, clock, born, toggling, mirror, told>>
  BY DEF Read, remoteVars
<1>2. Timed(mirror)' /\ Timed(poll.snap)'
  BY <1>1 DEF StampInv, Timed
<1>3. Tells(mirror, remote, toggling, DOMAIN mirror.entries)' /\ Tells(poll.snap, remote, toggling, Got)'
  BY <1>1 DEF StampInv
<1> QED BY <1>2, <1>3 DEF StampInv

\* Entries whose threads are skipped have the time the mirror has.
LEMMA ChangedSkips ==
  ASSUME NEW snap, NEW e \in DOMAIN snap.entries, e \notin Changed(snap)
  PROVE  e \in DOMAIN mirror.entries /\ mirror.entries[e].stamp = snap.entries[e].stamp
BY DEF Changed

\* The first reads of a local poll tell of rows only.
LEMMA BareReadTells ==
  ASSUME KnowInv, StampInv, NEW at \in {"labels", "relations", "rows"}, NEW snap, Read(at, snap, {}),
         IF at = "rows" THEN snap.entries = remote.entries ELSE DOMAIN snap.entries = {}
  PROVE  StampInv'
<1>1. poll'.at = at /\ at \notin {"list", "ready"} \cup Entries
  BY SyncAssumption DEF Read, Stages
<1>2. Got' = {} /\ SkipsOld'
  BY <1>1 DEF Got, SkipsOld
<1>3. Timed(snap) /\ Tells(snap, remote, toggling, {})
  BY DEF KnowInv, RemoteInv, Timed, Tells
<1> QED BY <1>2, <1>3, ReadTells

\* The reads of a local poll.
LEMMA LocalReadsTell ==
  ASSUME KnowInv, StampInv, ReadLabels \/ ReadRelations \/ ReadRows \/ ReadChangedThreads
  PROVE  StampInv'
<1>1. IsStore(poll.snap)
  BY DEF KnowInv, Known
<1>2. CASE ReadLabels
  <2> DEFINE snap == [EmptyStore EXCEPT !.labels = remote.labels]
  <2>1. DOMAIN snap.entries = {} /\ Read("labels", snap, {})
    BY <1>2 DEF EmptyStore, NoRows, ReadLabels
  <2> HIDE DEF snap
  <2> QED BY <2>1, BareReadTells
<1>3. CASE ReadRelations
  <2> DEFINE snap == [poll.snap EXCEPT !.tags = remote.tags, !.pins = remote.pins,
                                       !.pullTags = remote.pullTags]
  <2>1. Read("relations", snap, {}) /\ poll.at = "labels"
    BY <1>3 DEF ReadRelations
  <2>2. DOMAIN snap.entries = {}
    BY <1>1, <2>1 DEF IsStore, Tables, KnowInv, PollInv
  <2> HIDE DEF snap
  <2> QED BY <2>1, <2>2, BareReadTells
<1>4. CASE ReadRows
  <2> DEFINE s    == [poll.snap EXCEPT !.entries = remote.entries, !.pulls = remote.pulls]
             snap == WithPullThreads(s, DOMAIN remote.pulls)
  <2>1. IsStore(s) /\ s.entries = remote.entries
    BY <1>1 DEF IsStore, Tables
  <2>2. Read("rows", snap, {})
    BY <1>4 DEF ReadRows
  <2> HIDE DEF s
  <2>3. snap.entries = s.entries
    BY <2>1, WithPullThreadsReads
  <2> HIDE DEF snap
  <2> QED BY <2>1, <2>2, <2>3, BareReadTells
<1>5. CASE ReadChangedThreads
  <2> DEFINE changed == Changed(poll.snap)
             snap == WithThreads(poll.snap, changed)
  <2>1. Read("ready", snap, changed) /\ poll.at = "rows"
    BY <1>5 DEF ReadChangedThreads
  <2>2. Got = {}
    BY <2>1, SyncAssumption DEF Got, Stages
  <2>3. /\ DOMAIN poll.snap.comments = {} /\ DOMAIN poll.snap.reactions = {}
        /\ DOMAIN poll.snap.entryReactions = {}
    BY <2>2 DEF KnowInv, Confined
  <2>4. \A e \in DOMAIN poll.snap.entries \ changed :
          e \in DOMAIN mirror.entries /\ mirror.entries[e].stamp = poll.snap.entries[e].stamp
    BY ChangedSkips
  <2> HIDE DEF changed
  <2>5. poll'.at = "ready" /\ poll'.snap = snap /\ poll'.todo = changed /\ UNCHANGED mirror
    BY <2>1 DEF Read
  <2>6. /\ snap.entries = poll.snap.entries
        /\ DOMAIN snap.comments = {c \in DOMAIN remote.comments : remote.comments[c].on \in changed}
        /\ DOMAIN snap.reactions =
             {r \in DOMAIN remote.reactions : remote.reactions[r].on \in DOMAIN snap.comments}
        /\ DOMAIN snap.entryReactions =
             {r \in DOMAIN remote.entryReactions : remote.entryReactions[r].on \in changed}
        /\ Alike(snap, remote)
    BY <1>1, <2>3, WithThreadsReads DEF KnowInv
  <2> HIDE DEF snap
  <2>7. Got' = changed /\ SkipsOld'
    BY <2>4, <2>5, <2>6 DEF Got, SkipsOld
  <2>8. \A e \in changed : SameThread(snap, remote, e)
    BY <2>6 DEF SameThread, On, Marks, Likes, Alike, Agree
  <2>9. Timed(snap) /\ Tells(snap, remote, toggling, changed)
    BY <2>6, <2>8 DEF StampInv, Timed, Tells
  <2> QED BY <2>1, <2>7, <2>9, ReadTells
<1> QED BY <1>2, <1>3, <1>4, <1>5

\* The reads of a hosted poll: a thread is read after its entry, so an entry that still has
\* the time read with it has the thread read after it.
LEMMA HostedReadsTell ==
  ASSUME KnowInv, StampInv, ListEntries \/ GetEntry \/ GetThread \/ GetPulls
  PROVE  StampInv'
<1>1. IsStore(poll.snap) /\ Alike(poll.snap, remote)
  BY DEF KnowInv, Known
<1>2. "list" \notin Entries /\ "ready" \notin Entries /\ "list" # "ready" /\ {"list", "ready"} \subseteq Stages
  BY SyncAssumption DEF Stages
<1>3. DOMAIN remote.entries \subseteq Entries /\ DOMAIN poll.snap.entries \subseteq Entries
  BY DEF KnowInv, RemoteInv, Known
<1>4. CASE ListEntries
  <2> DEFINE snap == [EmptyStore EXCEPT !.labels = remote.labels]
  <2>1. DOMAIN snap.entries = {} /\ Read("list", snap, DOMAIN remote.entries)
    BY <1>4 DEF EmptyStore, NoRows, ListEntries
  <2> HIDE DEF snap
  <2>2. Timed(snap) /\ Tells(snap, remote, toggling, Got') /\ SkipsOld'
    BY <1>2, <2>1 DEF Timed, Tells, SkipsOld, Read
  <2> QED BY <2>1, <2>2, ReadTells
<1>5. CASE GetEntry
  <2>1. PICK e \in poll.todo \cap DOMAIN remote.entries :
          LET ls == LabelsFor(remote, e) IN
          Read(e, [poll.snap EXCEPT !.entries = Put(@, e, remote.entries[e]),
                                    !.tags    = @ \cup ({e} \X ls),
                                    !.labels  = @ \cup ls], poll.todo \ {e})
    BY <1>5 DEF GetEntry
  <2> DEFINE snap == [poll.snap EXCEPT !.entries = Put(poll.snap.entries, e, remote.entries[e]),
                                       !.tags    = poll.snap.tags \cup ({e} \X LabelsFor(remote, e)),
                                       !.labels  = poll.snap.labels \cup LabelsFor(remote, e)]
  <2>2. Read(e, snap, poll.todo \ {e}) /\ poll.at = "list"
    BY <1>5, <2>1 DEF GetEntry
  <2>3. /\ snap.entries = Put(poll.snap.entries, e, remote.entries[e])
        /\ snap.comments = poll.snap.comments /\ snap.reactions = poll.snap.reactions
        /\ snap.entryReactions = poll.snap.entryReactions
    BY <1>1 DEF IsStore, Tables
  <2> HIDE DEF snap
  <2>4. /\ DOMAIN snap.entries = (DOMAIN poll.snap.entries) \cup {e}
        /\ snap.entries[e] = remote.entries[e]
        /\ \A d \in DOMAIN poll.snap.entries : d # e => snap.entries[d] = poll.snap.entries[d]
    BY <2>3 DEF Put
  <2>5. poll'.at = e /\ poll'.snap = snap
    BY <2>2 DEF Read
  <2>6. e \in Entries /\ e # "ready"
    BY <1>2, <1>3
  <2>7. poll.todo \cap DOMAIN poll.snap.entries = {} /\ "list" \notin DOMAIN poll.snap.entries
    BY <1>2, <1>3, <2>2 DEF KnowInv, PollInv
  <2>8. Got' = Got /\ e \notin Got
    BY <1>2, <2>2, <2>4, <2>5, <2>6, <2>7 DEF Got
  <2>9. Timed(snap)
    BY <2>4 DEF KnowInv, RemoteInv, StampInv, Timed
  <2>10. \A d : SameThread(poll.snap, remote, d) => SameThread(snap, remote, d)
    BY <2>3 DEF SameThread, On, Marks, Likes
  <2>11. Tells(snap, remote, toggling, Got)
    BY <2>4, <2>8, <2>10 DEF StampInv, Tells
  <2>12. SkipsOld'
    BY <2>5, <2>6 DEF SkipsOld
  <2> QED BY <2>2, <2>8, <2>9, <2>11, <2>12, ReadTells
<1>6. CASE GetThread
  <2> DEFINE e    == poll.at
             snap == WithThreads(poll.snap, {e})
  <2>1. Read("list", snap, poll.todo) /\ e \in DOMAIN remote.entries /\ e \in Entries
    BY <1>3, <1>6 DEF GetThread
  <2>2. /\ snap.entries = poll.snap.entries
        /\ DOMAIN snap.comments =
             (DOMAIN poll.snap.comments) \cup {c \in DOMAIN remote.comments : remote.comments[c].on \in {e}}
        /\ DOMAIN snap.reactions =
             (DOMAIN poll.snap.reactions)
               \cup {r \in DOMAIN remote.reactions :
                       remote.reactions[r].on \in {c \in DOMAIN remote.comments : remote.comments[c].on \in {e}}}
        /\ DOMAIN snap.entryReactions =
             (DOMAIN poll.snap.entryReactions)
               \cup {r \in DOMAIN remote.entryReactions : remote.entryReactions[r].on \in {e}}
        /\ Alike(snap, poll.snap) /\ Alike(snap, remote)
    BY <1>1, WithThreadsReads
  <2> HIDE DEF snap
  <2>3. poll'.at = "list" /\ poll'.snap = snap
    BY <2>1 DEF Read
  <2>4. e \in DOMAIN poll.snap.entries /\ e # "ready" /\ "list" \notin DOMAIN poll.snap.entries
    BY <1>2, <1>3, <2>1 DEF KnowInv, PollInv
  <2>5. Got' = DOMAIN poll.snap.entries /\ Got = DOMAIN poll.snap.entries \ {e}
    BY <1>2, <2>1, <2>2, <2>3, <2>4 DEF Got
  <2>6. SameThread(snap, remote, e)
    <3>1. On(snap, e) = On(remote, e)
      BY <2>2, <2>5 DEF On, KnowInv, Confined, Alike, Agree
    <3>2. Marks(snap, e) = Marks(remote, e)
      <4>1. ASSUME NEW r \in Marks(snap, e)
            PROVE  r \in Marks(remote, e)
        <5>1. r \in DOMAIN snap.reactions /\ snap.reactions[r].on \in On(remote, e)
          BY <3>1 DEF Marks
        <5>2. r \notin DOMAIN poll.snap.reactions
          <6>1. SUFFICES ASSUME r \in DOMAIN poll.snap.reactions PROVE FALSE
            OBVIOUS
          <6>2. snap.reactions[r] = poll.snap.reactions[r]
            BY <2>2, <5>1, <6>1 DEF Alike, Agree
          <6>3. poll.snap.reactions[r].on \in DOMAIN poll.snap.comments
            BY <6>1 DEF KnowInv, Confined
          <6>4. poll.snap.comments[poll.snap.reactions[r].on].on = e
            BY <1>1, <5>1, <6>2, <6>3 DEF On, Alike, Agree
          <6> QED BY <2>5, <6>3, <6>4 DEF KnowInv, Confined
        <5>3. r \in DOMAIN remote.reactions /\ remote.reactions[r] = snap.reactions[r]
          BY <2>2, <5>1, <5>2 DEF Alike, Agree
        <5> QED BY <5>1, <5>3 DEF Marks
      <4>2. ASSUME NEW r \in Marks(remote, e)
            PROVE  r \in Marks(snap, e)
        BY <2>2, <3>1 DEF Marks, On, Alike, Agree
      <4> QED BY <4>1, <4>2
    <3>3. Likes(snap, e) = Likes(remote, e)
      BY <2>2, <2>5 DEF Likes, KnowInv, Confined, Alike, Agree
    <3> QED BY <3>1, <3>2, <3>3 DEF SameThread
  <2>7. ASSUME NEW d \in Got, SameThread(poll.snap, remote, d)
        PROVE  SameThread(snap, remote, d)
    <3>1. d # e
      BY <2>5
    <3>2. On(snap, d) = On(remote, d)
      BY <2>2, <2>7, <3>1 DEF SameThread, On, Alike, Agree
    <3>3. Marks(snap, d) = Marks(remote, d)
      <4>1. ASSUME NEW r \in Marks(remote, d)
            PROVE  r \in Marks(snap, d)
        BY <2>2, <2>7, <3>2 DEF SameThread, Marks, Alike, Agree
      <4>2. ASSUME NEW r \in Marks(snap, d)
            PROVE  r \in Marks(remote, d)
        <5>1. r \in DOMAIN snap.reactions /\ snap.reactions[r].on \in On(remote, d)
          BY <3>2 DEF Marks
        <5>2. r \in DOMAIN poll.snap.reactions => r \in Marks(poll.snap, d)
          BY <2>2, <2>7, <5>1 DEF SameThread, Marks, Alike, Agree
        <5>3. r \in DOMAIN remote.reactions => remote.reactions[r] = snap.reactions[r]
          BY <2>2, <5>1 DEF Alike, Agree
        <5> QED BY <2>2, <2>7, <5>1, <5>2, <5>3 DEF SameThread, Marks
      <4> QED BY <4>1, <4>2
    <3>4. Likes(snap, d) = Likes(remote, d)
      BY <2>2, <2>7, <3>1 DEF SameThread, Likes, Alike, Agree
    <3> QED BY <3>2, <3>3, <3>4 DEF SameThread
  <2>8. Timed(snap) /\ SkipsOld'
    BY <1>2, <2>2, <2>3 DEF StampInv, Timed, SkipsOld
  <2>9. Tells(snap, remote, toggling, Got')
    BY <2>2, <2>5, <2>6, <2>7 DEF StampInv, Tells
  <2> QED BY <2>1, <2>8, <2>9, ReadTells
<1>7. CASE GetPulls
  <2> DEFINE s       == [poll.snap EXCEPT !.pulls    = remote.pulls,
                                          !.pullTags = remote.pullTags,
                                          !.labels   = poll.snap.labels \cup {t[2] : t \in remote.pullTags}]
             all     == WithPullThreads(s, DOMAIN remote.pulls)
             changed == Changed(all)
             snap    == OnlyThreads(all, changed)
  <2>1. Read("ready", snap, changed) /\ poll.at = "list"
    BY <1>7 DEF GetPulls
  <2>2. /\ IsStore(s) /\ s.entries = poll.snap.entries /\ s.comments = poll.snap.comments
        /\ s.reactions = poll.snap.reactions /\ s.entryReactions = poll.snap.entryReactions
    BY <1>1 DEF IsStore, Tables
  <2> HIDE DEF s
  <2>3. /\ IsStore(all) /\ all.entries = s.entries /\ all.comments = s.comments
        /\ all.reactions = s.reactions /\ all.entryReactions = s.entryReactions
    BY <2>2, WithPullThreadsReads
  <2>4. \A e \in DOMAIN all.entries \ changed :
          e \in DOMAIN mirror.entries /\ mirror.entries[e].stamp = all.entries[e].stamp
    BY ChangedSkips
  <2> HIDE DEF all, changed
  <2>5. /\ IsStore(snap) /\ snap.entries = all.entries
        /\ DOMAIN snap.comments = {c \in DOMAIN all.comments : all.comments[c].on \in changed}
        /\ DOMAIN snap.reactions =
             {r \in DOMAIN all.reactions :
                all.reactions[r].on \in {c \in DOMAIN all.comments : all.comments[c].on \in changed}}
        /\ DOMAIN snap.entryReactions =
             {r \in DOMAIN all.entryReactions : all.entryReactions[r].on \in changed}
        /\ \A c \in DOMAIN snap.comments : snap.comments[c] = all.comments[c]
        /\ \A r \in DOMAIN snap.reactions : snap.reactions[r] = all.reactions[r]
        /\ \A r \in DOMAIN snap.entryReactions : snap.entryReactions[r] = all.entryReactions[r]
    BY <2>3, OnlyThreadsKeeps
  <2> HIDE DEF snap
  <2>6. poll'.at = "ready" /\ poll'.snap = snap /\ poll'.todo = changed /\ UNCHANGED mirror
    BY <2>1 DEF Read
  <2>7. Got' = changed /\ Got = DOMAIN poll.snap.entries
    BY <1>2, <1>3, <2>1, <2>6 DEF Got
  <2>8. Timed(snap) /\ SkipsOld'
    BY <2>2, <2>3, <2>4, <2>5, <2>6 DEF StampInv, Timed, SkipsOld
  <2>9. ASSUME NEW e \in changed
        PROVE  /\ On(snap, e) = On(poll.snap, e) /\ Marks(snap, e) = Marks(poll.snap, e)
               /\ Likes(snap, e) = Likes(poll.snap, e)
    <3>1. On(snap, e) = On(poll.snap, e)
      BY <2>2, <2>3, <2>5 DEF On
    <3>2. Marks(snap, e) = Marks(poll.snap, e)
      BY <2>2, <2>3, <2>5, <3>1 DEF Marks, On
    <3>3. Likes(snap, e) = Likes(poll.snap, e)
      BY <2>2, <2>3, <2>5 DEF Likes
    <3> QED BY <3>1, <3>2, <3>3
  <2>10. Tells(snap, remote, toggling, changed)
    BY <2>2, <2>3, <2>5, <2>7, <2>9 DEF StampInv, Tells, SameThread
  <2> QED BY <2>1, <2>7, <2>8, <2>10, ReadTells
<1> QED BY <1>4, <1>5, <1>6, <1>7

\* After a poll that ends the mirror tells what it told.
LEMMA IdleTells ==
  ASSUME poll' = Idle, Timed(mirror)', Tells(mirror, remote, toggling, DOMAIN mirror.entries)'
  PROVE  StampInv'
<1>1. poll'.at = "idle" /\ DOMAIN poll'.snap.entries = {}
  BY DEF Idle, EmptyStore, NoRows
<1>2. Timed(poll.snap)' /\ SkipsOld' /\ Tells(poll.snap, remote, toggling, Got)'
  BY <1>1 DEF Timed, SkipsOld, Tells
<1> QED BY <1>2 DEF StampInv

\* A poll that is given up.
LEMMA AbortTells ==
  ASSUME StampInv, poll' = Idle, UNCHANGED <<remoteVars, mirror>>
  PROVE  StampInv'
<1>1. Timed(mirror)' /\ Tells(mirror, remote, toggling, DOMAIN mirror.entries)'
  BY DEF StampInv, remoteVars, Timed
<1> QED BY <1>1, IdleTells

\* The thread of an entry the poll compared is the one it read.
LEMMA ComparedThread ==
  ASSUME NEW t, NEW s, NEW es, NEW e \in es, e \in DOMAIN s.entries, Rooted(mirror), Rooted(t),
         Alike(t, s), Alike(t, mirror), Alike(mirror, s),
         \A c : c \in DOMAIN t.comments <=>
           \/ c \in DOMAIN s.comments /\ s.comments[c].on \in DOMAIN s.entries
           \/ /\ c \in DOMAIN mirror.comments /\ mirror.comments[c].on \in DOMAIN s.entries
              /\ mirror.comments[c].on \notin es,
         \A r : r \in DOMAIN t.reactions <=>
           \/ r \in DOMAIN s.reactions /\ s.reactions[r].on \in DOMAIN t.comments
           \/ /\ r \in DOMAIN mirror.reactions /\ mirror.reactions[r].on \in DOMAIN t.comments
              /\ ~ \E c \in DOMAIN mirror.comments :
                     mirror.reactions[r].on = c /\ mirror.comments[c].on \in es,
         \A r : r \in DOMAIN t.entryReactions <=>
           \/ r \in DOMAIN s.entryReactions /\ s.entryReactions[r].on \in DOMAIN s.entries
           \/ /\ r \in DOMAIN mirror.entryReactions /\ mirror.entryReactions[r].on \in DOMAIN s.entries
              /\ mirror.entryReactions[r].on \notin es
  PROVE  SameThread(t, s, e)
<1>1. On(t, e) = On(s, e)
  BY DEF On, Alike, Agree
<1>2. ASSUME NEW r \in Marks(s, e)
      PROVE  r \in Marks(t, e)
  BY <1>1 DEF Marks, On, Alike, Agree
<1>3. ASSUME NEW r \in Marks(t, e)
      PROVE  r \in Marks(s, e)
  <2>1. r \in DOMAIN t.reactions /\ t.reactions[r].on \in On(s, e)
    BY <1>1 DEF Marks
  <2>2. CASE r \in DOMAIN s.reactions
    BY <2>1, <2>2 DEF Marks, Alike, Agree
  <2>3. CASE r \notin DOMAIN s.reactions
    <3>1. r \in DOMAIN mirror.reactions /\ mirror.reactions[r] = t.reactions[r]
      BY <2>1, <2>3 DEF Alike, Agree
    <3>2. mirror.reactions[r].on \in DOMAIN mirror.comments
      BY <3>1 DEF Rooted
    <3>3. mirror.comments[mirror.reactions[r].on].on = e
      BY <2>1, <3>1, <3>2 DEF On, Alike, Agree
    <3> QED BY <2>1, <2>3, <3>1, <3>2, <3>3
  <2> QED BY <2>2, <2>3
<1>4. Likes(t, e) = Likes(s, e)
  BY DEF Likes, Alike, Agree
<1> QED BY <1>1, <1>2, <1>3, <1>4 DEF SameThread

\* The thread of an entry the poll skipped is the one the mirror had.
LEMMA SkippedThread ==
  ASSUME NEW t, NEW s, NEW es, NEW e, e \notin es, e \in DOMAIN s.entries, Rooted(mirror), Rooted(t),
         Alike(t, s), Alike(t, mirror), Alike(mirror, s),
         \A c \in DOMAIN s.comments : s.comments[c].on \in es,
         \A r \in DOMAIN s.reactions : s.reactions[r].on \in DOMAIN s.comments,
         \A r \in DOMAIN s.entryReactions : s.entryReactions[r].on \in es,
         \A c : c \in DOMAIN t.comments <=>
           \/ c \in DOMAIN s.comments /\ s.comments[c].on \in DOMAIN s.entries
           \/ /\ c \in DOMAIN mirror.comments /\ mirror.comments[c].on \in DOMAIN s.entries
              /\ mirror.comments[c].on \notin es,
         \A r : r \in DOMAIN t.reactions <=>
           \/ r \in DOMAIN s.reactions /\ s.reactions[r].on \in DOMAIN t.comments
           \/ /\ r \in DOMAIN mirror.reactions /\ mirror.reactions[r].on \in DOMAIN t.comments
              /\ ~ \E c \in DOMAIN mirror.comments :
                     mirror.reactions[r].on = c /\ mirror.comments[c].on \in es,
         \A r : r \in DOMAIN t.entryReactions <=>
           \/ r \in DOMAIN s.entryReactions /\ s.entryReactions[r].on \in DOMAIN s.entries
           \/ /\ r \in DOMAIN mirror.entryReactions /\ mirror.entryReactions[r].on \in DOMAIN s.entries
              /\ mirror.entryReactions[r].on \notin es
  PROVE  SameThread(t, mirror, e)
<1>1. On(t, e) = On(mirror, e)
  BY DEF On, Alike, Agree
<1>2. ASSUME NEW r \in Marks(mirror, e)
      PROVE  r \in Marks(t, e)
  <2>1. r \in DOMAIN mirror.reactions /\ mirror.reactions[r].on \in On(mirror, e)
    BY DEF Marks
  <2>2. mirror.reactions[r].on \in DOMAIN t.comments /\ mirror.comments[mirror.reactions[r].on].on = e
    BY <1>1, <2>1 DEF On
  <2>3. r \in DOMAIN t.reactions
    BY <2>1, <2>2
  <2> QED BY <1>1, <2>1, <2>3 DEF Marks, Alike, Agree
<1>3. ASSUME NEW r \in Marks(t, e)
      PROVE  r \in Marks(mirror, e)
  <2>1. r \in DOMAIN t.reactions /\ t.reactions[r].on \in On(mirror, e)
    BY <1>1 DEF Marks
  <2>2. r \notin DOMAIN s.reactions
    <3> SUFFICES ASSUME r \in DOMAIN s.reactions PROVE FALSE
      OBVIOUS
    <3>1. s.reactions[r] = t.reactions[r] /\ s.reactions[r].on \in DOMAIN s.comments
      BY <2>1 DEF Alike, Agree
    <3>2. s.comments[s.reactions[r].on].on = e
      BY <2>1, <3>1 DEF On, Alike, Agree
    <3> QED BY <3>1, <3>2
  <2>3. r \in DOMAIN mirror.reactions /\ mirror.reactions[r] = t.reactions[r]
    BY <2>1, <2>2 DEF Alike, Agree
  <2> QED BY <2>1, <2>3 DEF Marks
<1>4. Likes(t, e) = Likes(mirror, e)
  BY DEF Likes, Alike, Agree
<1> QED BY <1>1, <1>2, <1>3, <1>4 DEF SameThread

\* A commit: compared threads are the poll's, skipped ones the mirror's, and both were right
\* for the time they had.
LEMMA CommitTells ==
  ASSUME KnowInv, StampInv, Commit
  PROVE  StampInv'
<1> DEFINE s  == poll.snap
           es == poll.todo
<1>1. poll.at = "ready" /\ poll' = Idle /\ UNCHANGED remoteVars
  BY DEF Commit
<1>2. CASE ~ ForeignKeys(Filled(s))
  <2>1. UNCHANGED mirror
    BY <1>2 DEF Commit
  <2> QED BY <1>1, <2>1, AbortTells
<1>3. CASE ForeignKeys(Filled(s))
  <2>1. mirror' = Pruned(Filled(s), s, es)
    BY <1>3 DEF Commit
  <2>2. IsStore(mirror) /\ IsStore(s) /\ Alike(mirror, s) /\ Rooted(mirror)
    BY DEF KnowInv, Known
  <2>3. Got = es
    BY <1>1 DEF Got
  <2> DEFINE t == Pruned(Filled(s), s, es)
  <2>4. /\ IsStore(t) /\ Rooted(t) /\ DOMAIN t.entries = DOMAIN s.entries
        /\ \A e \in DOMAIN s.entries :
             \/ t.entries[e] = s.entries[e]
             \/ /\ e \in DOMAIN mirror.entries
                /\ t.entries[e] = mirror.entries[e] /\ mirror.entries[e].stamp = s.entries[e].stamp
        /\ Alike(t, s) /\ Alike(t, mirror)
        /\ \A c : c \in DOMAIN t.comments <=>
             \/ c \in DOMAIN s.comments /\ s.comments[c].on \in DOMAIN s.entries
             \/ /\ c \in DOMAIN mirror.comments /\ mirror.comments[c].on \in DOMAIN s.entries
                /\ mirror.comments[c].on \notin es
        /\ \A r : r \in DOMAIN t.reactions <=>
             \/ r \in DOMAIN s.reactions /\ s.reactions[r].on \in DOMAIN t.comments
             \/ /\ r \in DOMAIN mirror.reactions /\ mirror.reactions[r].on \in DOMAIN t.comments
                /\ ~ \E c \in DOMAIN mirror.comments :
                       mirror.reactions[r].on = c /\ mirror.comments[c].on \in es
        /\ \A r : r \in DOMAIN t.entryReactions <=>
             \/ r \in DOMAIN s.entryReactions /\ s.entryReactions[r].on \in DOMAIN s.entries
             \/ /\ r \in DOMAIN mirror.entryReactions /\ mirror.entryReactions[r].on \in DOMAIN s.entries
                /\ mirror.entryReactions[r].on \notin es
    BY <2>2, CommittedTables
  <2> HIDE DEF t
  <2>5. Timed(t)
    BY <2>4 DEF StampInv, Timed
  <2>6. \A e \in DOMAIN t.entries : t.entries[e].stamp = s.entries[e].stamp
    BY <2>4
  <2>7. ASSUME NEW e \in ((DOMAIN t.entries) \cap (DOMAIN remote.entries)) \ toggling,
               t.entries[e].stamp = remote.entries[e].stamp
        PROVE  t.entries[e] = remote.entries[e] /\ SameThread(t, remote, e)
    <3>1. e \in DOMAIN s.entries /\ s.entries[e].stamp = remote.entries[e].stamp
      BY <2>4, <2>6, <2>7
    <3>2. s.entries[e] = remote.entries[e] /\ (e \in es => SameThread(s, remote, e))
      BY <2>3, <3>1 DEF StampInv, Tells
    <3>3. e \in DOMAIN mirror.entries /\ mirror.entries[e].stamp = remote.entries[e].stamp =>
            mirror.entries[e] = remote.entries[e] /\ SameThread(mirror, remote, e)
      BY DEF StampInv, Tells
    <3>4. t.entries[e] = remote.entries[e]
      BY <2>4, <3>1, <3>2, <3>3
    <3>5. CASE e \in es
      <4>1. SameThread(t, s, e)
        BY <2>2, <2>4, <3>1, <3>5, ComparedThread
      <4> QED BY <3>2, <3>4, <3>5, <4>1 DEF SameThread
    <3>6. CASE e \notin es
      <4>1. e \in DOMAIN mirror.entries /\ mirror.entries[e].stamp = s.entries[e].stamp
        BY <1>1, <3>1, <3>6 DEF StampInv, SkipsOld
      <4>2. /\ \A c \in DOMAIN s.comments : s.comments[c].on \in es
            /\ \A r \in DOMAIN s.reactions : s.reactions[r].on \in DOMAIN s.comments
            /\ \A r \in DOMAIN s.entryReactions : s.entryReactions[r].on \in es
        BY <2>3 DEF KnowInv, Confined
      <4>3. SameThread(t, mirror, e)
        BY <2>2, <2>4, <3>1, <3>6, <4>2, SkippedThread
      <4> QED BY <3>1, <3>3, <3>4, <4>1, <4>3 DEF SameThread
    <3> QED BY <3>5, <3>6
  <2>8. Tells(t, remote, toggling, DOMAIN t.entries)
    BY <2>7 DEF Tells
  <2>9. mirror' = t
    BY <2>1 DEF t
  <2>10. Timed(mirror)' /\ Tells(mirror, remote, toggling, DOMAIN mirror.entries)'
    BY <1>1, <2>5, <2>8, <2>9 DEF remoteVars, Timed
  <2> QED BY <1>1, <2>10, IdleTells
<1> QED BY <1>2, <1>3

----------------------------------------------------------------------------
(* The invariants *)

\* What is known to begin with.
LEMMA InitKnows == Init => KnowInv
<1> SUFFICES ASSUME Init PROVE KnowInv
  OBVIOUS
<1>1. /\ remote = Seed /\ mirror = Seed /\ poll = Idle /\ born = Ids(Seed) /\ told = {}
      /\ clock = [writes |-> 0, time |-> 0]
  BY DEF Init
<1>2. /\ IsStore(Idle.snap) /\ DOMAIN Idle.snap.entries = {} /\ DOMAIN Idle.snap.comments = {}
      /\ DOMAIN Idle.snap.reactions = {} /\ DOMAIN Idle.snap.entryReactions = {} /\ Idle.at = "idle"
  BY DEF Idle, EmptyStore, IsStore, Tables, NoRows
<1>3. Rooted(Seed)
  BY SyncAssumption, CascadeRooted DEF ForeignKeys
<1>4. /\ DOMAIN Seed.entries \subseteq Ids(Seed) /\ DOMAIN Seed.comments \subseteq Ids(Seed)
      /\ DOMAIN Seed.reactions \subseteq Ids(Seed) /\ DOMAIN Seed.entryReactions \subseteq Ids(Seed)
  BY DEF Ids
<1>5. RemoteInv /\ Known(mirror) /\ Rooted(mirror)
  BY <1>1, <1>3, <1>4, SyncAssumption DEF RemoteInv, Known, Timed
<1>6. Known(poll.snap) /\ Alike(mirror, remote) /\ Alike(poll.snap, remote) /\ Alike(mirror, poll.snap)
  BY <1>1, <1>2 DEF Known, Alike, Agree
<1>7. "idle" \notin {"list"} \cup Entries /\ "idle" \in Stages /\ "idle" # "ready"
  BY SyncAssumption DEF Stages
<1>8. PollInv /\ Confined /\ Covers /\ ToldInv
  BY <1>1, <1>2, <1>7 DEF PollInv, Confined, Covers, Got, ToldInv
<1> QED BY <1>5, <1>6, <1>8 DEF KnowInv

\* The times tell the truth to begin with: both trackers are the seed.
LEMMA InitTells == Init => StampInv
<1> SUFFICES ASSUME Init PROVE StampInv
  OBVIOUS
<1>1. /\ remote = Seed /\ mirror = Seed /\ poll = Idle /\ clock = [writes |-> 0, time |-> 0]
  BY DEF Init
<1>2. Idle.at = "idle" /\ DOMAIN Idle.snap.entries = {}
  BY DEF Idle, EmptyStore, NoRows
<1> QED BY <1>1, <1>2, SyncAssumption DEF StampInv, Timed, Tells, SkipsOld, SameThread

\* What is known stays known.
LEMMA StepKnows ==
  ASSUME KnowInv, [Next]_vars
  PROVE  KnowInv'
<1>1. CASE People \/ TouchAfter
  BY <1>1, RemoteSteps, RemoteKeepsKnown DEF KnowInv
<1>2. CASE ReadLabels \/ ReadRelations \/ ReadRows \/ ReadChangedThreads
  BY <1>2, LocalReadsKnow
<1>3. CASE ListEntries \/ GetEntry \/ GetThread \/ GetPulls
  BY <1>3, HostedReadsKnow
<1>4. CASE EntryGone \/ RequestFails \/ Crash
  <2>1. poll' = Idle /\ UNCHANGED <<remoteVars, mirror, told>>
    BY <1>4 DEF EntryGone, RequestFails, Abort, Crash
  <2> QED BY <2>1, AbortKnows
<1>5. CASE Commit
  BY <1>5, CommitKnows
<1>6. CASE Deliver \/ Handle \/ UNCHANGED vars
  <2>1. UNCHANGED <<remote, clock, born, toggling, mirror, poll, told>>
    BY <1>6 DEF Deliver, Handle, vars, remoteVars
  <2> QED BY <2>1 DEF KnowInv, RemoteInv, Known, Rooted, Timed, Alike, PollInv, Confined, Covers, Got,
                  Listed, On, ToldInv
<1> QED BY <1>1, <1>2, <1>3, <1>4, <1>5, <1>6 DEF Next, Poll

\* What the times tell stays true, as long as no two writes show the same time.
LEMMA StepTells ==
  ASSUME ~Coarse, KnowInv, StampInv, [Next]_vars
  PROVE  StampInv'
<1>1. CASE People \/ TouchAfter
  BY <1>1, RemoteSteps, RemoteKeepsStamps DEF KnowInv
<1>2. CASE ReadLabels \/ ReadRelations \/ ReadRows \/ ReadChangedThreads
  BY <1>2, LocalReadsTell
<1>3. CASE ListEntries \/ GetEntry \/ GetThread \/ GetPulls
  BY <1>3, HostedReadsTell
<1>4. CASE EntryGone \/ RequestFails \/ Crash
  <2>1. poll' = Idle /\ UNCHANGED <<remoteVars, mirror>>
    BY <1>4 DEF EntryGone, RequestFails, Abort, Crash
  <2> QED BY <2>1, AbortTells
<1>5. CASE Commit
  BY <1>5, CommitTells
<1>6. CASE Deliver \/ Handle \/ UNCHANGED vars
  <2>1. UNCHANGED <<remote, clock, toggling, mirror, poll>>
    BY <1>6 DEF Deliver, Handle, vars, remoteVars
  <2> QED BY <2>1 DEF StampInv, Timed, Tells, SkipsOld, SameThread, On, Marks, Likes, Got
<1> QED BY <1>1, <1>2, <1>3, <1>4, <1>5, <1>6 DEF Next, Poll

\* Of two stores that are alike, an entry with the same row and the same ids in its thread
\* has the same thread.
LEMMA ThreadsEqual ==
  ASSUME NEW s, NEW t, NEW e, Alike(s, t), s.entries[e] = t.entries[e], SameThread(s, t, e)
  PROVE  Thread(s, e) = Thread(t, e)
<1> DEFINE cs == RowsOn(s.comments, {e})
           ct == RowsOn(t.comments, {e})
<1>1. cs = On(s, e) /\ ct = On(t, e)
  BY DEF RowsOn, On
<1>2. /\ RowsOn(s.reactions, cs) = Marks(s, e) /\ RowsOn(t.reactions, ct) = Marks(t, e)
      /\ RowsOn(s.entryReactions, {e}) = Likes(s, e) /\ RowsOn(t.entryReactions, {e}) = Likes(t, e)
  BY <1>1 DEF RowsOn, Marks, Likes
<1>3. Keep(s.comments, cs) = Keep(t.comments, ct)
  BY <1>1 DEF SameThread, Keep, On, Alike, Agree
<1>4. Keep(s.reactions, RowsOn(s.reactions, cs)) = Keep(t.reactions, RowsOn(t.reactions, ct))
  BY <1>2 DEF SameThread, Keep, Marks, Alike, Agree
<1>5. Keep(s.entryReactions, RowsOn(s.entryReactions, {e})) = Keep(t.entryReactions, RowsOn(t.entryReactions, {e}))
  BY <1>2 DEF SameThread, Keep, Likes, Alike, Agree
<1> QED BY <1>3, <1>4, <1>5 DEF Thread

\* A poll may skip the thread of an entry whose updated_at it has: unless the remote's clock
\* shows two writes the same time, equal times mean equal threads, for every seed and any
\* writes, polls, faults and crashes (TrackingLocal.sync_from_remote).
THEOREM EqualTimesEqualThreads ==
  ASSUME ~Coarse
  PROVE  Spec => []StampsTell
<1>1. Init => KnowInv /\ StampInv
  BY InitKnows, InitTells
<1>2. KnowInv /\ StampInv /\ [Next]_vars => (KnowInv /\ StampInv)'
  BY StepKnows, StepTells
<1>3. KnowInv /\ StampInv => StampsTell
  <2> SUFFICES ASSUME KnowInv, StampInv,
                      NEW e \in ((DOMAIN mirror.entries) \cap (DOMAIN remote.entries)) \ toggling,
                      mirror.entries[e].stamp = remote.entries[e].stamp
               PROVE  Thread(mirror, e) = Thread(remote, e)
    BY DEF StampsTell
  <2>1. mirror.entries[e] = remote.entries[e] /\ SameThread(mirror, remote, e)
    BY DEF StampInv, Tells
  <2> QED BY <2>1, ThreadsEqual DEF KnowInv
<1> QED BY <1>1, <1>2, <1>3, PTL DEF Spec

\* No entry and no comment is reported as new twice, whatever the clock shows: what was
\* reported stays in the mirror until it is gone for good (sync_to_db.py acts on each report).
THEOREM ReportedOnce == Spec => ToldOnce
<1> DEFINE Once == \A c \in changes' \ changes :
                     c.act = "create" /\ c.type \in {"entry", "comment"} => c.id \notin told
<1>1. Init => KnowInv
  BY InitKnows
<1>2. KnowInv /\ [Next]_vars => KnowInv'
  BY StepKnows
<1>3. ASSUME KnowInv, [Next]_vars
      PROVE  [Once]_vars
  <2>1. CASE Commit
    <3> SUFFICES ASSUME NEW c \in changes' \ changes, c.act = "create", c.type \in {"entry", "comment"}
                 PROVE  c.id \notin told
      OBVIOUS
    <3>1. c \in Differences(poll.snap, poll.todo)
      BY <2>1 DEF Commit
    <3>2. \/ c.id \in DOMAIN poll.snap.entries \ DOMAIN mirror.entries
          \/ c.id \in DOMAIN poll.snap.comments \ DOMAIN mirror.comments
      BY <3>1 DEF Differences, EntryChanges, LabelChanges, ThreadChanges, Change
    <3> QED BY <1>3, <3>2 DEF KnowInv, ToldInv
  <2>2. CASE People \/ TouchAfter
    <3>1. changes' = changes
      BY <1>3, <2>2, RemoteSteps DEF KnowInv
    <3> QED BY <3>1
  <2>3. CASE ReadLabels \/ ReadRelations \/ ReadRows \/ ReadChangedThreads
             \/ ListEntries \/ GetEntry \/ GetThread \/ GetPulls
    <3>1. changes' = changes
      BY <2>3 DEF ReadLabels, ReadRelations, ReadRows, ReadChangedThreads, ListEntries, GetEntry,
                  GetThread, GetPulls, Read
    <3> QED BY <3>1
  <2>4. CASE EntryGone \/ RequestFails \/ Crash \/ Deliver \/ Handle
    <3>1. changes' \subseteq changes
      BY <2>4 DEF EntryGone, RequestFails, Abort, Crash, Deliver, Handle
    <3> QED BY <3>1
  <2> QED BY <1>3, <2>1, <2>2, <2>3, <2>4 DEF Next, Poll
<1> QED BY <1>1, <1>2, <1>3, PTL DEF Spec, ToldOnce

----------------------------------------------------------------------------
(* Labels *)

\* a tag has its entry and its label, a pull request's tag its label
Labelled(s) ==
  /\ \A tag \in s.tags : tag \in (DOMAIN s.entries) \X s.labels
  /\ \A tag \in s.pullTags : tag[2] \in s.labels

\* What a step of the remote does to labels: one is not used again once it was pruned.
LabelsMoved ==
  /\ Labelled(remote')
  /\ remote'.labels \cap born \subseteq remote.labels
  /\ remote.labels \subseteq remote'.labels \cup born'

\* A write that leaves labels and tags alone.
LEMMA LabelsStill ==
  ASSUME Labelled(remote), remote'.tags \subseteq remote.tags, remote'.labels = remote.labels,
         remote'.pullTags \subseteq remote.pullTags,
         \A tag \in remote'.tags : tag[1] \in DOMAIN remote'.entries
  PROVE  LabelsMoved
BY DEF LabelsMoved, Labelled

\* The steps of the remote.
LEMMA RemoteMovesLabels ==
  ASSUME RemoteInv, Labelled(remote), People \/ TouchAfter
  PROVE  LabelsMoved
<1>1. IsStore(remote)
  BY DEF RemoteInv, Known
<1>2. CASE PostEntry
  <2>1. PICK e \in Entries, ls \in SUBSET (Labels \ born), now \in Nows :
          remote' = AddEntry(remote, e, ls, now)
    BY <1>2 DEF PostEntry
  <2>2. /\ remote'.labels = remote.labels \cup ls /\ remote'.tags = remote.tags \cup ({e} \X ls)
        /\ remote'.pullTags = remote.pullTags
        /\ remote'.entries = Put(remote.entries, e, NewRow(now))
    BY <1>1, <2>1 DEF AddEntry, IsStore, Tables
  <2>3. DOMAIN remote'.entries = (DOMAIN remote.entries) \cup {e}
    BY <2>2 DEF Put
  <2> QED BY <2>2, <2>3 DEF LabelsMoved, Labelled
<1>3. CASE PostComment
  <2>1. PICK e \in DOMAIN remote.entries, c \in Comments, now \in Nows :
          remote' = AddEntryComment(remote, e, c, now)
    BY <1>3 DEF PostComment
  <2>2. /\ remote'.labels = remote.labels /\ remote'.tags = remote.tags
        /\ remote'.pullTags = remote.pullTags
        /\ DOMAIN remote'.entries = DOMAIN remote.entries
    BY <1>1, <2>1 DEF AddEntryComment, Touch, IsStore, Tables
  <2> QED BY <2>2, LabelsStill DEF Labelled
<1>4. CASE React
  <2>1. PICK r \in Reactions, now \in Nows :
          \/ \E c \in DOMAIN remote.comments : remote' = AddCommentReaction(remote, c, r, now)
          \/ \E e \in DOMAIN remote.entries : remote' = AddEntryReaction(remote, e, r, now)
    BY <1>4 DEF React
  <2>2. /\ remote'.labels = remote.labels /\ remote'.tags = remote.tags
        /\ remote'.pullTags = remote.pullTags
        /\ DOMAIN remote'.entries = DOMAIN remote.entries
    BY <1>1, <2>1 DEF AddCommentReaction, AddEntryReaction, Touch, IsStore, Tables
  <2> QED BY <2>2, LabelsStill DEF Labelled
<1>5. CASE ChangeEntry
  <2>1. PICK e \in DOMAIN remote.entries, now \in Nows :
          \/ remote' = EditEntry(remote, e, now)
          \/ remote' = SetEntryState(remote, e, ~remote.entries[e].open, now)
          \/ remote' = DeleteEntry(remote, e)
    BY <1>5 DEF ChangeEntry
  <2>2. CASE remote' \in {EditEntry(remote, e, now), SetEntryState(remote, e, ~remote.entries[e].open, now)}
    <3>1. /\ remote'.labels = remote.labels /\ remote'.tags = remote.tags
          /\ remote'.pullTags = remote.pullTags
          /\ DOMAIN remote'.entries = DOMAIN remote.entries
      BY <1>1, <2>2 DEF EditEntry, SetEntryState, Touch, IsStore, Tables
    <3> QED BY <3>1, LabelsStill DEF Labelled
  <2>3. CASE remote' = DeleteEntry(remote, e)
    <3> DEFINE u == [remote EXCEPT !.entries = Keep(remote.entries, (DOMAIN remote.entries) \ {e})]
    <3>1. /\ IsStore(u) /\ u.labels = remote.labels /\ u.tags = remote.tags /\ u.pullTags = remote.pullTags
      BY <1>1 DEF IsStore, Tables
    <3>2. remote' = Cascade(u)
      BY <2>3 DEF DeleteEntry
    <3> HIDE DEF u
    <3>3. /\ remote'.labels = u.labels /\ remote'.entries = u.entries
          /\ remote'.tags = u.tags \cap ((DOMAIN u.entries) \X u.labels)
          /\ remote'.pullTags = u.pullTags \cap ((DOMAIN u.pulls) \X u.labels)
      BY <3>1, <3>2 DEF Cascade, IsStore, Tables
    <3>4. \A tag \in remote'.tags : tag[1] \in DOMAIN remote'.entries
      BY <3>3
    <3>5. /\ remote'.tags \subseteq remote.tags /\ remote'.pullTags \subseteq remote.pullTags
          /\ remote'.labels = remote.labels
      BY <3>1, <3>3
    <3> QED BY <3>4, <3>5, LabelsStill
  <2> QED BY <2>1, <2>2, <2>3
<1>6. CASE Relabel
  <2>1. PICK e \in DOMAIN remote.entries, l \in Labels \ born, now \in Nows :
          \/ remote' = RemoveEntryLabel(remote, e, l, now)
          \/ remote' = AddEntryLabel(remote, e, l, now)
    BY <1>6 DEF Relabel
  <2> DEFINE u == [remote EXCEPT !.labels = remote.labels \cup {l}, !.tags = remote.tags \cup {<<e, l>>}]
             v == [remote EXCEPT !.tags = remote.tags \ {<<e, l>>}]
  <2>2. /\ IsStore(u) /\ u.labels = remote.labels \cup {l} /\ u.tags = remote.tags \cup {<<e, l>>}
        /\ u.pullTags = remote.pullTags /\ u.entries = remote.entries
    BY <1>1 DEF IsStore, Tables
  <2>3. /\ IsStore(v) /\ v.labels = remote.labels /\ v.tags = remote.tags \ {<<e, l>>}
        /\ v.pullTags = remote.pullTags /\ v.entries = remote.entries
    BY <1>1 DEF IsStore, Tables
  <2>4. remote' \in {remote, Touch(v, e, now), Touch(u, e, now)}
    BY <2>1 DEF AddEntryLabel, RemoveEntryLabel
  <2> HIDE DEF u, v
  <2>5. ASSUME NEW w, IsStore(w)
        PROVE  LET t == Touch(w, e, now) IN
               /\ t.labels = w.labels /\ t.tags = w.tags /\ t.pullTags = w.pullTags
               /\ DOMAIN t.entries = DOMAIN w.entries
    BY <2>5 DEF Touch, IsStore, Tables
  <2>6. CASE remote' = Touch(u, e, now)
    <3>1. /\ remote'.labels = remote.labels \cup {l} /\ remote'.tags = remote.tags \cup {<<e, l>>}
          /\ remote'.pullTags = remote.pullTags
          /\ DOMAIN remote'.entries = DOMAIN remote.entries
      BY <2>2, <2>5, <2>6
    <3> QED BY <3>1 DEF LabelsMoved, Labelled
  <2>7. CASE remote' = Touch(v, e, now)
    <3>1. /\ remote'.labels = remote.labels /\ remote'.tags \subseteq remote.tags
          /\ remote'.pullTags = remote.pullTags
          /\ DOMAIN remote'.entries = DOMAIN remote.entries
      BY <2>3, <2>5, <2>7
    <3> QED BY <3>1, LabelsStill DEF Labelled
  <2>8. CASE remote' = remote
    BY <2>8, LabelsStill DEF Labelled
  <2> QED BY <2>4, <2>6, <2>7, <2>8
<1>7. CASE Reseed
  <2>1. PICK now \in Nows :
          \/ \E l \in Labels \ (remote.labels \cup born) :
               remote' = CreateLabel(remote, l) /\ Wrote(now, {})
          \/ \E l \in remote.labels : remote' = DeleteLabel(remote, l) /\ Wrote(now, {l})
          \/ \E e \in DOMAIN remote.entries \ remote.pins :
               remote' = PinEntry(remote, e) /\ Wrote(now, {})
    BY <1>7 DEF Reseed
  <2>2. ASSUME NEW l \in Labels \ (remote.labels \cup born), remote' = CreateLabel(remote, l)
        PROVE  LabelsMoved
    <3>1. /\ remote'.labels = remote.labels \cup {l} /\ remote'.tags = remote.tags
          /\ remote'.pullTags = remote.pullTags
          /\ remote'.entries = remote.entries
      BY <1>1, <2>2 DEF CreateLabel, IsStore, Tables
    <3> QED BY <3>1 DEF LabelsMoved, Labelled
  <2>3. ASSUME NEW l \in remote.labels, remote' = DeleteLabel(remote, l), Wrote(now, {l})
        PROVE  LabelsMoved
    <3> DEFINE u == [remote EXCEPT !.labels = remote.labels \ {l}]
    <3>1. /\ IsStore(u) /\ u.labels = remote.labels \ {l} /\ u.tags = remote.tags
          /\ u.pullTags = remote.pullTags /\ u.entries = remote.entries
      BY <1>1 DEF IsStore, Tables
    <3>2. remote' = Cascade(u)
      BY <2>3 DEF DeleteLabel
    <3> HIDE DEF u
    <3>3. /\ remote'.labels = u.labels /\ remote'.entries = u.entries
          /\ remote'.tags = u.tags \cap ((DOMAIN u.entries) \X u.labels)
          /\ remote'.pullTags = u.pullTags \cap ((DOMAIN u.pulls) \X u.labels)
      BY <3>1, <3>2 DEF Cascade, IsStore, Tables
    <3>4. born' = born \cup {l}
      BY <2>3 DEF Wrote
    <3>5. Labelled(remote')
      BY <3>3 DEF Labelled
    <3> QED BY <3>1, <3>3, <3>4, <3>5 DEF LabelsMoved
  <2>4. ASSUME NEW e, remote' = PinEntry(remote, e)
        PROVE  LabelsMoved
    <3>1. /\ remote'.labels = remote.labels /\ remote'.tags = remote.tags
          /\ remote'.pullTags = remote.pullTags
          /\ remote'.entries = remote.entries
      BY <1>1, <2>4 DEF PinEntry, IsStore, Tables
    <3> QED BY <3>1, LabelsStill DEF Labelled
  <2> QED BY <2>1, <2>2, <2>3, <2>4
<1>8. CASE PostPull
  <2>1. PICK p \in Pulls, ls \in SUBSET (Labels \ born), now \in Nows : remote' = AddPull(remote, p, ls, now)
    BY <1>8 DEF PostPull
  <2>2. /\ remote'.labels = remote.labels \cup ls /\ remote'.tags = remote.tags
        /\ remote'.pullTags = remote.pullTags \cup ({p} \X ls)
        /\ remote'.entries = remote.entries
    BY <1>1, <2>1 DEF AddPull, IsStore, Tables
  <2> QED BY <2>2 DEF LabelsMoved, Labelled
<1>9. CASE ChangePull
  <2>1. PICK now \in Nows :
          \/ \E p \in DOMAIN remote.pulls : remote' = SetPullClosed(remote, p, now)
          \/ \E p \in DOMAIN remote.pulls, c \in Comments : remote' = AddPullComment(remote, p, c, now)
          \/ \E c \in DOMAIN remote.pullComments, r \in Reactions :
               remote' = AddPullCommentReaction(remote, c, r, now)
    BY <1>9 DEF ChangePull
  <2>2. /\ remote'.labels = remote.labels /\ remote'.tags = remote.tags
        /\ remote'.pullTags = remote.pullTags
        /\ remote'.entries = remote.entries
    BY <1>1, <2>1 DEF SetPullClosed, AddPullComment, AddPullCommentReaction, TouchPull, IsStore, Tables
  <2> QED BY <2>2, LabelsStill DEF Labelled
<1>10. CASE Unreact
  <2>1. PICK r \in Reactions :
          \/ remote' = [remote EXCEPT !.reactions = Keep(@, (DOMAIN @) \ {r})]
          \/ remote' = [remote EXCEPT !.entryReactions = Keep(@, (DOMAIN @) \ {r})]
    BY <1>10 DEF Unreact
  <2>2. /\ remote'.labels = remote.labels /\ remote'.tags = remote.tags
        /\ remote'.pullTags = remote.pullTags
        /\ remote'.entries = remote.entries
    BY <1>1, <2>1 DEF IsStore, Tables
  <2> QED BY <2>2, LabelsStill DEF Labelled
<1>11. CASE TouchAfter
  <2>1. remote' = remote \/ \E e, now : remote' = Touch(remote, e, now)
    BY <1>11 DEF TouchAfter
  <2>2. /\ remote'.labels = remote.labels /\ remote'.tags = remote.tags
        /\ remote'.pullTags = remote.pullTags
        /\ DOMAIN remote'.entries = DOMAIN remote.entries
    BY <1>1, <2>1 DEF Touch, IsStore, Tables
  <2> QED BY <2>2, LabelsStill DEF Labelled
<1> QED BY <1>2, <1>3, <1>4, <1>5, <1>6, <1>7, <1>8, <1>9, <1>10, <1>11 DEF People

\* Labels are read before tags, so a tag of a label the mirror has is a tag of a label read.
LabelInv ==
  /\ Labelled(remote) /\ Labelled(mirror)
  /\ mirror.labels \subseteq remote.labels \cup born
  /\ poll.snap.labels \subseteq remote.labels \cup born
  /\ poll.at # "idle" => mirror.labels \cap remote.labels \subseteq poll.snap.labels
  /\ \A tag \in poll.snap.tags : tag[2] \in mirror.labels => tag[2] \in poll.snap.labels

\* what a poll read on an entry the mirror has is on an entry it read, and an entry it did not
\* read was compared
SeenInv ==
  poll.at = "ready" =>
    /\ \A c \in DOMAIN poll.snap.comments :
         poll.snap.comments[c].on \in DOMAIN mirror.entries => poll.snap.comments[c].on \in DOMAIN poll.snap.entries
    /\ \A r \in DOMAIN poll.snap.entryReactions :
         poll.snap.entryReactions[r].on \in DOMAIN mirror.entries =>
           poll.snap.entryReactions[r].on \in DOMAIN poll.snap.entries
    /\ (DOMAIN mirror.entries) \ (DOMAIN poll.snap.entries) \subseteq poll.todo

TableInv == LabelInv /\ SeenInv

\* The remote moves.
LEMMA RemoteKeepsTables ==
  ASSUME KnowInv, TableInv, RemoteMoved, LabelsMoved, UNCHANGED <<mirror, poll>>
  PROVE  TableInv'
<1>1. PICK ids, es : ids \cap born = {} /\ born' = born \cup ids /\ Moved(remote, remote', ids, es)
  BY DEF RemoteMoved
<1>2. LabelInv'
  <2>1. Labelled(remote)' /\ Labelled(mirror)'
    BY DEF TableInv, LabelInv, LabelsMoved, Labelled
  <2>2. remote.labels \cup born \subseteq remote'.labels \cup born'
    BY <1>1 DEF LabelsMoved
  <2>3. mirror.labels \cap remote'.labels \subseteq mirror.labels \cap remote.labels
    BY DEF LabelsMoved, TableInv, LabelInv
  <2> QED BY <2>1, <2>2, <2>3 DEF TableInv, LabelInv
<1>3. SeenInv'
  BY DEF TableInv, SeenInv
<1> QED BY <1>2, <1>3 DEF TableInv

\* A read keeps the tables, if it reads labels no later than tags.
LEMMA ReadKeepsTables ==
  ASSUME TableInv, NEW at, NEW snap, NEW todo, Read(at, snap, todo), SeenInv',
         snap.labels \subseteq poll.snap.labels \cup remote.labels,
         mirror.labels \cap remote.labels \subseteq snap.labels,
         \A tag \in snap.tags : tag[2] \in mirror.labels => tag[2] \in snap.labels
  PROVE  TableInv'
<1>1. poll'.snap = snap /\ UNCHANGED <<remote, born, mirror>>
  BY DEF Read, remoteVars
<1>2. LabelInv'
  BY <1>1 DEF TableInv, LabelInv, Labelled
<1> QED BY <1>2 DEF TableInv

\* Reading threads or pull requests touches no other table.
LEMMA TablesRead ==
  ASSUME NEW s, NEW es, IsStore(s)
  PROVE  /\ WithThreads(s, es).labels = s.labels /\ WithThreads(s, es).tags = s.tags
         /\ WithPullThreads(s, es).labels = s.labels /\ WithPullThreads(s, es).tags = s.tags
         /\ OnlyThreads(s, es).labels = s.labels /\ OnlyThreads(s, es).tags = s.tags
BY DEF IsStore, Tables, WithThreads, WithPullThreads, OnlyThreads

\* The reads of a local poll.
LEMMA LocalReadsTables ==
  ASSUME KnowInv, TableInv, ReadLabels \/ ReadRelations \/ ReadRows \/ ReadChangedThreads
  PROVE  TableInv'
<1>1. IsStore(poll.snap)
  BY DEF KnowInv, Known
<1>2. poll.at # "idle" => /\ mirror.labels \cap remote.labels \subseteq poll.snap.labels
                          /\ \A tag \in poll.snap.tags : tag[2] \in mirror.labels => tag[2] \in poll.snap.labels
  BY DEF TableInv, LabelInv
<1>3. CASE ReadLabels
  <2> DEFINE snap == [EmptyStore EXCEPT !.labels = remote.labels]
  <2>1. /\ snap.labels = remote.labels /\ snap.tags = {}
        /\ DOMAIN snap.reactions = {} /\ DOMAIN snap.entryReactions = {}
    BY DEF EmptyStore, NoRows
  <2>2. Read("labels", snap, {})
    BY <1>3 DEF ReadLabels
  <2> HIDE DEF snap
  <2>3. SeenInv'
    BY <2>2 DEF Read, SeenInv
  <2> QED BY <2>1, <2>2, <2>3, ReadKeepsTables
<1>4. CASE ReadRelations
  <2> DEFINE snap == [poll.snap EXCEPT !.tags = remote.tags, !.pins = remote.pins,
                                       !.pullTags = remote.pullTags]
  <2>1. /\ snap.labels = poll.snap.labels /\ snap.tags = remote.tags
        /\ snap.reactions = poll.snap.reactions /\ snap.entryReactions = poll.snap.entryReactions
    BY <1>1 DEF IsStore, Tables
  <2>2. Read("relations", snap, {}) /\ poll.at = "labels"
    BY <1>4 DEF ReadRelations
  <2> HIDE DEF snap
  <2>3. SeenInv'
    BY <2>2 DEF Read, SeenInv
  <2>4. \A tag \in remote.tags : tag[2] \in remote.labels
    BY DEF TableInv, LabelInv, Labelled
  <2> QED BY <1>2, <2>1, <2>2, <2>3, <2>4, ReadKeepsTables
<1>5. CASE ReadRows
  <2> DEFINE s    == [poll.snap EXCEPT !.entries = remote.entries, !.pulls = remote.pulls]
             snap == WithPullThreads(s, DOMAIN remote.pulls)
  <2>1. /\ IsStore(s) /\ s.labels = poll.snap.labels /\ s.tags = poll.snap.tags
        /\ s.reactions = poll.snap.reactions /\ s.entryReactions = poll.snap.entryReactions
    BY <1>1 DEF IsStore, Tables
  <2>2. Read("rows", snap, {}) /\ poll.at = "relations"
    BY <1>5 DEF ReadRows
  <2> HIDE DEF s
  <2>3. /\ snap.labels = s.labels /\ snap.tags = s.tags
        /\ snap.reactions = s.reactions /\ snap.entryReactions = s.entryReactions
    BY <2>1, WithPullThreadsReads, TablesRead
  <2> HIDE DEF snap
  <2>4. SeenInv'
    BY <2>2 DEF Read, SeenInv
  <2> QED BY <1>2, <2>1, <2>2, <2>3, <2>4, ReadKeepsTables
<1>6. CASE ReadChangedThreads
  <2> DEFINE changed == Changed(poll.snap)
             snap == WithThreads(poll.snap, changed)
  <2>1. Read("ready", snap, changed) /\ poll.at = "rows"
    BY <1>6 DEF ReadChangedThreads
  <2>2. (DOMAIN mirror.entries) \ (DOMAIN poll.snap.entries) \subseteq changed
    BY DEF Changed
  <2> HIDE DEF changed
  <2>3. /\ snap.entries = poll.snap.entries
        /\ DOMAIN snap.comments =
             (DOMAIN poll.snap.comments)
               \cup {c \in DOMAIN remote.comments : remote.comments[c].on \in changed}
        /\ DOMAIN snap.reactions =
             (DOMAIN poll.snap.reactions)
               \cup {r \in DOMAIN remote.reactions :
                       remote.reactions[r].on \in {c \in DOMAIN remote.comments : remote.comments[c].on \in changed}}
        /\ DOMAIN snap.entryReactions =
             (DOMAIN poll.snap.entryReactions)
               \cup {r \in DOMAIN remote.entryReactions : remote.entryReactions[r].on \in changed}
        /\ Alike(snap, remote)
    BY <1>1, WithThreadsReads DEF KnowInv
  <2>4. snap.labels = poll.snap.labels /\ snap.tags = poll.snap.tags
    BY <1>1, TablesRead
  <2> HIDE DEF snap
  <2>5. Got = {}
    BY <2>1, SyncAssumption DEF Got, Stages
  <2>6. DOMAIN poll.snap.comments = {} /\ DOMAIN poll.snap.entryReactions = {}
    BY <2>5 DEF KnowInv, Confined
  <2>7. poll'.snap = snap /\ poll'.todo = changed /\ UNCHANGED mirror
    BY <2>1 DEF Read
  <2>8. (DOMAIN mirror.entries) \cap (DOMAIN remote.entries) \subseteq DOMAIN snap.entries
    BY <2>1, <2>3, SyncAssumption DEF KnowInv, Covers, Listed, Stages
  <2>9. /\ \A c \in DOMAIN snap.comments : snap.comments[c].on \in DOMAIN remote.entries
        /\ \A r \in DOMAIN snap.entryReactions : snap.entryReactions[r].on \in DOMAIN remote.entries
    BY <2>3, <2>6 DEF KnowInv, RemoteInv, Rooted, Alike, Agree
  <2>10. SeenInv'
    BY <2>2, <2>3, <2>7, <2>8, <2>9 DEF SeenInv
  <2> QED BY <1>2, <2>1, <2>3, <2>4, <2>10, ReadKeepsTables
<1> QED BY <1>3, <1>4, <1>5, <1>6

\* The reads of a hosted poll.
LEMMA HostedReadsTables ==
  ASSUME KnowInv, TableInv, ListEntries \/ GetEntry \/ GetThread \/ GetPulls
  PROVE  TableInv'
<1>1. IsStore(poll.snap)
  BY DEF KnowInv, Known
<1>2. poll.at # "idle" => /\ mirror.labels \cap remote.labels \subseteq poll.snap.labels
                          /\ \A tag \in poll.snap.tags : tag[2] \in mirror.labels => tag[2] \in poll.snap.labels
  BY DEF TableInv, LabelInv
<1>3. DOMAIN remote.entries \subseteq Entries /\ {"idle", "list", "ready"} \cap Entries = {}
  BY SyncAssumption DEF KnowInv, RemoteInv, Known, Stages
<1>4. CASE ListEntries
  <2> DEFINE snap == [EmptyStore EXCEPT !.labels = remote.labels]
  <2>1. /\ snap.labels = remote.labels /\ snap.tags = {}
        /\ DOMAIN snap.reactions = {} /\ DOMAIN snap.entryReactions = {}
    BY DEF EmptyStore, NoRows
  <2>2. Read("list", snap, DOMAIN remote.entries)
    BY <1>4 DEF ListEntries
  <2> HIDE DEF snap
  <2>3. SeenInv'
    BY <2>2 DEF Read, SeenInv
  <2> QED BY <2>1, <2>2, <2>3, ReadKeepsTables
<1>5. CASE GetEntry
  <2>1. PICK e \in poll.todo \cap DOMAIN remote.entries :
          LET ls == LabelsFor(remote, e) IN
          Read(e, [poll.snap EXCEPT !.entries = Put(@, e, remote.entries[e]),
                                    !.tags    = @ \cup ({e} \X ls),
                                    !.labels  = @ \cup ls], poll.todo \ {e})
    BY <1>5 DEF GetEntry
  <2> DEFINE ls   == LabelsFor(remote, e)
             snap == [poll.snap EXCEPT !.entries = Put(poll.snap.entries, e, remote.entries[e]),
                                       !.tags    = poll.snap.tags \cup ({e} \X ls),
                                       !.labels  = poll.snap.labels \cup ls]
  <2>2. Read(e, snap, poll.todo \ {e}) /\ poll.at = "list"
    BY <1>5, <2>1 DEF GetEntry
  <2>3. ls \subseteq remote.labels
    BY DEF LabelsFor
  <2> HIDE DEF ls
  <2>4. /\ snap.labels = poll.snap.labels \cup ls /\ snap.tags = poll.snap.tags \cup ({e} \X ls)
        /\ snap.reactions = poll.snap.reactions /\ snap.entryReactions = poll.snap.entryReactions
    BY <1>1 DEF IsStore, Tables
  <2> HIDE DEF snap
  <2>5. SeenInv'
    BY <1>3, <2>2 DEF Read, SeenInv
  <2>6. /\ mirror.labels \cap remote.labels \subseteq snap.labels
        /\ \A tag \in snap.tags : tag[2] \in mirror.labels => tag[2] \in snap.labels
    BY <1>2, <2>2, <2>4
  <2> QED BY <2>2, <2>3, <2>4, <2>5, <2>6, ReadKeepsTables
<1>6. CASE GetThread
  <2> DEFINE e    == poll.at
             snap == WithThreads(poll.snap, {e})
  <2>1. Read("list", snap, poll.todo) /\ poll.at # "idle"
    BY <1>3, <1>6 DEF GetThread
  <2>2. /\ DOMAIN snap.reactions =
             (DOMAIN poll.snap.reactions)
               \cup {r \in DOMAIN remote.reactions :
                       remote.reactions[r].on \in {c \in DOMAIN remote.comments : remote.comments[c].on \in {e}}}
        /\ DOMAIN snap.entryReactions =
             (DOMAIN poll.snap.entryReactions)
               \cup {r \in DOMAIN remote.entryReactions : remote.entryReactions[r].on \in {e}}
    BY <1>1, WithThreadsReads DEF KnowInv
  <2>3. snap.labels = poll.snap.labels /\ snap.tags = poll.snap.tags
    BY <1>1, TablesRead
  <2> HIDE DEF snap
  <2>4. SeenInv'
    BY <2>1 DEF Read, SeenInv
  <2> QED BY <1>2, <2>1, <2>2, <2>3, <2>4, ReadKeepsTables
<1>7. CASE GetPulls
  <2> DEFINE ls      == {t[2] : t \in remote.pullTags}
             s       == [poll.snap EXCEPT !.pulls    = remote.pulls,
                                          !.pullTags = remote.pullTags,
                                          !.labels   = poll.snap.labels \cup ls]
             all     == WithPullThreads(s, DOMAIN remote.pulls)
             changed == Changed(all)
             snap    == OnlyThreads(all, changed)
  <2>1. Read("ready", snap, changed) /\ poll.at = "list"
    BY <1>7 DEF GetPulls
  <2>2. ls \subseteq remote.labels
    BY DEF TableInv, LabelInv, Labelled
  <2> HIDE DEF ls
  <2>3. /\ IsStore(s) /\ s.entries = poll.snap.entries /\ s.comments = poll.snap.comments
        /\ s.reactions = poll.snap.reactions /\ s.entryReactions = poll.snap.entryReactions
        /\ s.labels = poll.snap.labels \cup ls /\ s.tags = poll.snap.tags
    BY <1>1 DEF IsStore, Tables
  <2> HIDE DEF s
  <2>4. /\ IsStore(all) /\ all.entries = s.entries /\ all.comments = s.comments
        /\ all.reactions = s.reactions /\ all.entryReactions = s.entryReactions
        /\ all.labels = s.labels /\ all.tags = s.tags
    BY <2>3, WithPullThreadsReads, TablesRead
  <2>5. (DOMAIN mirror.entries) \ (DOMAIN all.entries) \subseteq changed
    BY DEF Changed
  <2> HIDE DEF all, changed
  <2>6. /\ snap.entries = all.entries
        /\ DOMAIN snap.comments = {c \in DOMAIN all.comments : all.comments[c].on \in changed}
        /\ DOMAIN snap.reactions =
             {r \in DOMAIN all.reactions :
                all.reactions[r].on \in {c \in DOMAIN all.comments : all.comments[c].on \in changed}}
        /\ DOMAIN snap.entryReactions =
             {r \in DOMAIN all.entryReactions : all.entryReactions[r].on \in changed}
        /\ \A c \in DOMAIN snap.comments : snap.comments[c] = all.comments[c]
        /\ \A r \in DOMAIN snap.entryReactions : snap.entryReactions[r] = all.entryReactions[r]
    BY <2>4, OnlyThreadsKeeps
  <2>7. snap.labels = all.labels /\ snap.tags = all.tags
    BY <2>4, TablesRead
  <2> HIDE DEF snap
  <2>8. poll'.snap = snap /\ poll'.todo = changed /\ UNCHANGED mirror
    BY <2>1 DEF Read
  <2>9. Got \subseteq DOMAIN poll.snap.entries
    BY <1>3, <2>1 DEF Got
  <2>10. SeenInv'
    BY <2>3, <2>4, <2>5, <2>6, <2>8, <2>9 DEF SeenInv, KnowInv, Confined
  <2>11. /\ snap.labels \subseteq poll.snap.labels \cup remote.labels
         /\ mirror.labels \cap remote.labels \subseteq snap.labels
         /\ \A tag \in snap.tags : tag[2] \in mirror.labels => tag[2] \in snap.labels
    BY <1>2, <2>1, <2>2, <2>3, <2>4, <2>7
  <2> QED BY <2>1, <2>3, <2>4, <2>6, <2>10, <2>11, ReadKeepsTables
<1> QED BY <1>4, <1>5, <1>6, <1>7

\* The labels and tags of the mirror after a commit are those the poll read, as far as the
\* foreign keys let them.
LEMMA CommittedLabels ==
  ASSUME NEW s, NEW es, IsStore(mirror)
  PROVE  LET t == Pruned(Filled(s), s, es) IN
         /\ t.labels = s.labels
         /\ t.tags = s.tags \cap ((DOMAIN s.entries) \X s.labels)
         /\ Labelled(t)
<1> DEFINE w == Filled(s)
           gone == Removed(s, es)
           u == [w EXCEPT !.labels         = s.labels,
                          !.entries        = Keep(w.entries, DOMAIN s.entries),
                          !.tags           = s.tags,
                          !.pins           = s.pins,
                          !.comments       = Keep(w.comments, (DOMAIN w.comments) \ gone.comments),
                          !.reactions      = Keep(w.reactions, (DOMAIN w.reactions) \ gone.reactions),
                          !.entryReactions = Keep(w.entryReactions,
                                                  (DOMAIN w.entryReactions) \ gone.entryReactions),
                          !.pulls          = Keep(w.pulls, DOMAIN s.pulls),
                          !.pullTags       = s.pullTags,
                          !.pullComments   = Keep(w.pullComments, DOMAIN s.pullComments),
                          !.pullReactions  = Keep(w.pullReactions, DOMAIN s.pullReactions)]
           t == Cascade(u)
<1>1. IsStore(w) /\ w.entries = Copied(s.entries, mirror.entries)
  BY FilledTables
<1>2. t = Pruned(w, s, es)
  BY DEF Pruned
<1> HIDE DEF w, gone
<1>3. /\ IsStore(u) /\ u.labels = s.labels /\ u.tags = s.tags
      /\ u.entries = Keep(w.entries, DOMAIN s.entries)
  BY <1>1 DEF IsStore, Tables
<1>4. DOMAIN u.entries = DOMAIN s.entries
  BY <1>1, <1>3 DEF Keep, Copied, Overlay
<1> HIDE DEF u
<1>5. /\ t.labels = u.labels /\ t.entries = u.entries
      /\ t.tags = u.tags \cap ((DOMAIN u.entries) \X u.labels)
      /\ t.pullTags = u.pullTags \cap ((DOMAIN u.pulls) \X u.labels)
  BY <1>3 DEF IsStore, Tables, Cascade
<1> HIDE DEF t
<1>6. Labelled(t)
  BY <1>5 DEF Labelled
<1> QED BY <1>2, <1>3, <1>4, <1>5, <1>6 DEF w

\* A poll that ends, whatever it leaves the mirror with.
LEMMA IdleTables ==
  ASSUME poll' = Idle, Labelled(remote'), Labelled(mirror'), mirror'.labels \subseteq remote'.labels \cup born'
  PROVE  TableInv'
<1>1. /\ poll'.at = "idle" /\ poll'.snap.labels = {} /\ poll'.snap.tags = {}
      /\ DOMAIN poll'.snap.reactions = {} /\ DOMAIN poll'.snap.entryReactions = {}
  BY DEF Idle, EmptyStore, NoRows
<1> QED BY <1>1 DEF TableInv, LabelInv, SeenInv

\* A poll that is given up.
LEMMA AbortTables ==
  ASSUME TableInv, poll' = Idle, UNCHANGED <<remoteVars, mirror>>
  PROVE  TableInv'
<1>1. /\ Labelled(remote') /\ Labelled(mirror') /\ mirror'.labels \subseteq remote'.labels \cup born'
  BY DEF TableInv, LabelInv, Labelled, remoteVars
<1> QED BY <1>1, IdleTables

\* The commit.
LEMMA CommitTables ==
  ASSUME KnowInv, TableInv, Commit
  PROVE  TableInv'
<1> DEFINE s  == poll.snap
           es == poll.todo
<1>1. poll' = Idle /\ UNCHANGED remoteVars
  BY DEF Commit
<1>2. CASE ~ ForeignKeys(Filled(s))
  <2>1. UNCHANGED mirror
    BY <1>2 DEF Commit
  <2> QED BY <1>1, <2>1, AbortTables
<1>3. CASE ForeignKeys(Filled(s))
  <2> DEFINE t == Pruned(Filled(s), s, es)
  <2>1. mirror' = t
    BY <1>3 DEF Commit
  <2>2. IsStore(mirror) /\ IsStore(s) /\ Alike(mirror, s)
    BY DEF KnowInv, Known
  <2>3. t.labels = s.labels /\ Labelled(t)
    BY <2>2, CommittedLabels
  <2> HIDE DEF t
  <2>4. /\ Labelled(remote') /\ Labelled(mirror') /\ mirror'.labels \subseteq remote'.labels \cup born'
    BY <1>1, <2>1, <2>3 DEF TableInv, LabelInv, Labelled, remoteVars
  <2> QED BY <1>1, <2>4, IdleTables
<1> QED BY <1>2, <1>3

\* The tables to begin with.
LEMMA InitTables == Init => TableInv
<1> SUFFICES ASSUME Init PROVE TableInv
  OBVIOUS
<1>1. remote = Seed /\ mirror = Seed /\ poll = Idle
  BY DEF Init
<1>2. /\ Idle.at = "idle" /\ Idle.snap.labels = {} /\ Idle.snap.tags = {}
      /\ DOMAIN Idle.snap.reactions = {} /\ DOMAIN Idle.snap.entryReactions = {}
  BY DEF Idle, EmptyStore, NoRows
<1>3. Seed = Cascade(Seed) /\ IsStore(Seed)
  BY SyncAssumption DEF ForeignKeys
<1>4. /\ Cascade(Seed).tags = Seed.tags \cap ((DOMAIN Seed.entries) \X Seed.labels)
      /\ Cascade(Seed).pullTags = Seed.pullTags \cap ((DOMAIN Seed.pulls) \X Seed.labels)
  BY <1>3 DEF IsStore, Tables, Cascade
<1>5. /\ \A tag \in Seed.tags : tag \in (DOMAIN Seed.entries) \X Seed.labels
      /\ \A tag \in Seed.pullTags : tag \in (DOMAIN Seed.pulls) \X Seed.labels
  BY <1>3, <1>4
<1>6. Labelled(Seed)
  BY <1>5 DEF Labelled
<1> QED BY <1>1, <1>2, <1>6, SyncAssumption DEF TableInv, LabelInv, SeenInv

\* The tables stay as they must be.
LEMMA StepTables ==
  ASSUME KnowInv, TableInv, [Next]_vars
  PROVE  TableInv'
<1>1. CASE People \/ TouchAfter
  <2>1. RemoteInv /\ Labelled(remote)
    BY DEF KnowInv, TableInv, LabelInv
  <2>2. RemoteMoved /\ LabelsMoved /\ UNCHANGED <<mirror, poll>>
    BY <1>1, <2>1, RemoteSteps, RemoteMovesLabels
  <2> QED BY <2>2, RemoteKeepsTables
<1>2. CASE ReadLabels \/ ReadRelations \/ ReadRows \/ ReadChangedThreads
  BY <1>2, LocalReadsTables
<1>3. CASE ListEntries \/ GetEntry \/ GetThread \/ GetPulls
  BY <1>3, HostedReadsTables
<1>4. CASE EntryGone \/ RequestFails \/ Crash
  <2>1. poll' = Idle /\ UNCHANGED <<remoteVars, mirror>>
    BY <1>4 DEF EntryGone, RequestFails, Abort, Crash
  <2> QED BY <2>1, AbortTables
<1>5. CASE Commit
  BY <1>5, CommitTables
<1>6. CASE Deliver \/ Handle \/ UNCHANGED vars
  <2>1. UNCHANGED <<remote, born, mirror, poll>>
    BY <1>6 DEF Deliver, Handle, vars, remoteVars
  <2> QED BY <2>1 DEF TableInv, LabelInv, Labelled, SeenInv
<1> QED BY <1>1, <1>2, <1>3, <1>4, <1>5, <1>6 DEF Next, Poll

----------------------------------------------------------------------------
(* Tasks *)

\* entries and labels are filed under their entry
Filed(t) ==
  /\ t.type \in {"entry", "label", "comment", "reaction", "entryReaction"}
  /\ t.type = "entry" => t.post = t.id
  /\ t.type = "label" => t.post = t.id[1]

\* the change "d" takes the task "t" away when it is delivered
Kills(d, t) ==
  \/ d.type = "entry" /\ d.act = "delete" /\ t.post = d.id
  \/ d.type \in {"label", "reaction", "entryReaction"} /\ d.type = t.type /\ d.id = t.id

\* A task tells of the mirror as it is, or a change that has still to be delivered takes it
\* away; what a change makes a task of, only a later change can.
TaskInv ==
  /\ changes # {} => poll = Idle
  /\ \A t \in queue : Filed(t)
  /\ \A c \in changes : c.rank \in Nat /\ Filed(Task(c))
  /\ \A t \in queue : {t.id, t.post} \cap lost = {} => Holds(t) \/ \E d \in changes : Kills(d, t)
  /\ \A c \in changes :
       ~Teardown(c) => Holds(Task(c)) \/ \E d \in changes : c.rank < d.rank /\ Kills(d, Task(c))

\* Steps that touch neither the mirror nor the changes nor the queue.
LEMMA StillTasks ==
  ASSUME TaskInv, changes = {} \/ poll' = Idle, UNCHANGED <<mirror, changes, queue, lost>>
  PROVE  TaskInv'
<1>1. \A t : Holds(t)' <=> Holds(t)
  BY DEF Holds
<1> QED BY <1>1 DEF TaskInv

\* What a poll read that commits: parents of what it read, and reactions that went.
LEMMA CommitReads ==
  ASSUME KnowInv, TableInv, poll.at = "ready", ForeignKeys(Filled(poll.snap))
  PROVE  LET s == poll.snap IN
         /\ \A c \in DOMAIN s.comments : s.comments[c].on \in DOMAIN s.entries
         /\ \A r \in DOMAIN s.reactions : s.reactions[r].on \in DOMAIN s.comments
         /\ \A r \in DOMAIN s.entryReactions : s.entryReactions[r].on \in DOMAIN s.entries
         /\ \A tag \in s.tags : tag[2] \in s.labels
                                /\ tag = <<tag[1], tag[2]>>
                                /\ tag[1] \in (DOMAIN s.entries) \cup DOMAIN mirror.entries
<1> DEFINE s == poll.snap
           w == Filled(s)
           f == Copied(s.entries, mirror.entries)
           g == Copied(s.comments, mirror.comments)
           o == Overlay(mirror.entryReactions, s.entryReactions)
<1>1. IsStore(mirror) /\ Agree(mirror.comments, s.comments)
  BY DEF KnowInv, Known, Alike
<1>2. /\ IsStore(w) /\ w.entries = f /\ w.comments = g /\ w.entryReactions = o
      /\ w.labels = mirror.labels \cup s.labels /\ w.tags = mirror.tags \cup s.tags
  BY <1>1, FilledTables
<1>3. w = Cascade(w)
  BY DEF ForeignKeys
<1> HIDE DEF w
<1>4. Rooted(w) /\ w.tags = w.tags \cap ((DOMAIN w.entries) \X w.labels)
  <2>1. Rooted(w)
    BY <1>2, <1>3, CascadeRooted
  <2>2. Cascade(w).tags = w.tags \cap ((DOMAIN w.entries) \X w.labels)
    BY <1>2 DEF IsStore, Tables, Cascade
  <2> QED BY <1>3, <2>1, <2>2
<1>5. DOMAIN f = (DOMAIN s.entries) \cup DOMAIN mirror.entries
  BY DEF Copied, Overlay, Keep
<1>6. DOMAIN g = (DOMAIN s.comments) \cup DOMAIN mirror.comments /\ Agree(g, s.comments)
  BY <1>1, CopiedRows
<1>7. /\ DOMAIN o = (DOMAIN s.entryReactions) \cup DOMAIN mirror.entryReactions
      /\ \A r \in DOMAIN s.entryReactions : o[r] = s.entryReactions[r]
  BY DEF Overlay
<1> HIDE DEF f, g, o
<1>8. \A c \in DOMAIN s.comments : s.comments[c].on \in DOMAIN s.entries
  BY <1>2, <1>4, <1>5, <1>6 DEF Rooted, Agree, TableInv, SeenInv
<1>9. \A r \in DOMAIN s.entryReactions : s.entryReactions[r].on \in DOMAIN s.entries
  BY <1>2, <1>4, <1>5, <1>7 DEF Rooted, TableInv, SeenInv
<1>10. \A r \in DOMAIN s.reactions : s.reactions[r].on \in DOMAIN s.comments
  BY DEF KnowInv, Confined
<1>11. ASSUME NEW tag \in s.tags
       PROVE  /\ tag[2] \in s.labels /\ tag = <<tag[1], tag[2]>>
              /\ tag[1] \in (DOMAIN s.entries) \cup DOMAIN mirror.entries
  <2>1. tag \in (DOMAIN w.entries) \X w.labels
    BY <1>2, <1>4
  <2>2. tag = <<tag[1], tag[2]>> /\ tag[1] \in DOMAIN w.entries /\ tag[2] \in w.labels
    BY <2>1
  <2>3. tag[2] \in mirror.labels => tag[2] \in s.labels
    BY DEF TableInv, LabelInv
  <2> QED BY <1>2, <1>5, <2>2, <2>3
<1> QED BY <1>8, <1>9, <1>10, <1>11

\* What a commit reports.
LEMMA Reports ==
  ASSUME NEW s, NEW es
  PROVE  LET ds == Differences(s, es) IN
         /\ \A e \in (DOMAIN mirror.entries) \ DOMAIN s.entries : Change(9, "entry", "delete", e, e) \in ds
         /\ \A tag \in s.tags \ mirror.tags : Change(3, "label", "create", tag, tag[1]) \in ds
         /\ \A tag \in mirror.tags \ s.tags : Change(8, "label", "delete", tag, tag[1]) \in ds
         /\ \A r \in (DOMAIN s.reactions) \ DOMAIN mirror.reactions :
              Change(5, "reaction", "create", r, s.reactions[r].on) \in ds
         /\ \A r \in (DOMAIN s.entryReactions) \ DOMAIN mirror.entryReactions :
              Change(5, "entryReaction", "create", r, s.entryReactions[r].on) \in ds
         /\ \A r \in Removed(s, es).reactions :
              Change(7, "reaction", "delete", r, mirror.reactions[r].on) \in ds
         /\ \A r \in Removed(s, es).entryReactions :
              Change(7, "entryReaction", "delete", r, mirror.entryReactions[r].on) \in ds
BY DEF Differences, EntryChanges, LabelChanges, ThreadChanges

\* A change is filed, and is one of these.
LEMMA Reported ==
  ASSUME NEW s, NEW es, NEW c \in Differences(s, es)
  PROVE  /\ c.rank \in Nat /\ Filed(Task(c))
         /\ \/ c.type = "entry" /\ (c.id \in DOMAIN s.entries \/ Teardown(c))
            \/ /\ c.type = "label" /\ c.act = "create" /\ c.rank = 3
               /\ c.id \in s.tags \ mirror.tags /\ c.post = c.id[1]
            \/ /\ c.type = "label" /\ c.act = "delete" /\ c.id \in mirror.tags \ s.tags
            \/ /\ c.type = "comment" /\ c.id \in DOMAIN s.comments /\ c.post = s.comments[c.id].on
            \/ c.type = "reaction" /\ c.act = "create" /\ c.id \in DOMAIN s.reactions
            \/ c.type = "reaction" /\ c.act = "delete" /\ c.id \in Removed(s, es).reactions
            \/ c.type = "entryReaction" /\ c.act = "create" /\ c.id \in DOMAIN s.entryReactions
            \/ c.type = "entryReaction" /\ c.act = "delete" /\ c.id \in Removed(s, es).entryReactions
<1>1. CASE c \in EntryChanges(s)
  BY <1>1 DEF EntryChanges, Change, Filed, Task, Teardown
<1>2. CASE c \in LabelChanges(s)
  BY <1>2 DEF LabelChanges, Change, Filed, Task
<1>3. CASE c \in ThreadChanges(s, es)
  BY <1>3 DEF ThreadChanges, Change, Filed, Task
<1> QED BY <1>1, <1>2, <1>3 DEF Differences

\* The tasks and changes after a commit.
LEMMA CommitTasks ==
  ASSUME KnowInv, TableInv, TaskInv, Commit
  PROVE  TaskInv'
<1> DEFINE s  == poll.snap
           es == poll.todo
<1>1. poll.at = "ready" /\ poll' = Idle /\ UNCHANGED <<queue, lost>>
  BY DEF Commit
<1>2. changes = {}
  BY <1>1 DEF TaskInv, Idle
<1>3. CASE ~ ForeignKeys(Filled(s))
  <2>1. UNCHANGED <<mirror, changes>>
    BY <1>3 DEF Commit
  <2> QED BY <1>1, <2>1, StillTasks
<1>4. CASE ForeignKeys(Filled(s))
  <2> DEFINE t  == Pruned(Filled(s), s, es)
             ds == Differences(s, es)
             gone == Removed(s, es)
  <2>1. mirror' = t /\ changes' = ds
    BY <1>4 DEF Commit
  <2>2. IsStore(mirror) /\ IsStore(s) /\ Alike(mirror, s)
    BY DEF KnowInv, Known
  <2>3. /\ t.labels = s.labels /\ t.tags = s.tags \cap ((DOMAIN s.entries) \X s.labels)
    BY <2>2, CommittedLabels
  <2>4. /\ DOMAIN t.entries = DOMAIN s.entries
        /\ \A c : c \in DOMAIN t.comments <=>
             \/ c \in DOMAIN s.comments /\ s.comments[c].on \in DOMAIN s.entries
             \/ /\ c \in DOMAIN mirror.comments /\ mirror.comments[c].on \in DOMAIN s.entries
                /\ mirror.comments[c].on \notin es
        /\ \A r : r \in DOMAIN t.reactions <=>
             \/ r \in DOMAIN s.reactions /\ s.reactions[r].on \in DOMAIN t.comments
             \/ /\ r \in DOMAIN mirror.reactions /\ mirror.reactions[r].on \in DOMAIN t.comments
                /\ ~ \E c \in DOMAIN mirror.comments :
                       mirror.reactions[r].on = c /\ mirror.comments[c].on \in es
        /\ \A r : r \in DOMAIN t.entryReactions <=>
             \/ r \in DOMAIN s.entryReactions /\ s.entryReactions[r].on \in DOMAIN s.entries
             \/ /\ r \in DOMAIN mirror.entryReactions /\ mirror.entryReactions[r].on \in DOMAIN s.entries
                /\ mirror.entryReactions[r].on \notin es
    BY <2>2, CommittedTables
  <2>5. /\ \A c \in DOMAIN s.comments : s.comments[c].on \in DOMAIN s.entries
        /\ \A r \in DOMAIN s.reactions : s.reactions[r].on \in DOMAIN s.comments
        /\ \A r \in DOMAIN s.entryReactions : s.entryReactions[r].on \in DOMAIN s.entries
        /\ \A tag \in s.tags : tag[2] \in s.labels /\ tag = <<tag[1], tag[2]>>
                               /\ tag[1] \in (DOMAIN s.entries) \cup DOMAIN mirror.entries
    BY <1>1, <1>4, CommitReads
  <2>6. /\ \A e \in (DOMAIN mirror.entries) \ DOMAIN s.entries : Change(9, "entry", "delete", e, e) \in ds
        /\ \A tag \in s.tags \ mirror.tags : Change(3, "label", "create", tag, tag[1]) \in ds
        /\ \A tag \in mirror.tags \ s.tags : Change(8, "label", "delete", tag, tag[1]) \in ds
        /\ \A r \in (DOMAIN s.reactions) \ DOMAIN mirror.reactions :
             Change(5, "reaction", "create", r, s.reactions[r].on) \in ds
        /\ \A r \in (DOMAIN s.entryReactions) \ DOMAIN mirror.entryReactions :
             Change(5, "entryReaction", "create", r, s.entryReactions[r].on) \in ds
        /\ \A r \in gone.reactions : Change(7, "reaction", "delete", r, mirror.reactions[r].on) \in ds
        /\ \A r \in gone.entryReactions :
             Change(7, "entryReaction", "delete", r, mirror.entryReactions[r].on) \in ds
    BY Reports
  <2>7. \A c \in ds : c.rank \in Nat /\ Filed(Task(c))
    BY Reported
  <2>8. /\ gone.reactions = {r \in DOMAIN mirror.reactions :
                               mirror.reactions[r].on \in {c \in DOMAIN mirror.comments : mirror.comments[c].on \in es}}
                            \ DOMAIN s.reactions
        /\ gone.entryReactions = {r \in DOMAIN mirror.entryReactions : mirror.entryReactions[r].on \in es}
                                 \ DOMAIN s.entryReactions
    <3> DEFINE ours == OnlyThreads(mirror, es)
    <3>1. gone.reactions = (DOMAIN ours.reactions) \ DOMAIN s.reactions
          /\ gone.entryReactions = (DOMAIN ours.entryReactions) \ DOMAIN s.entryReactions
      BY DEF Removed
    <3> HIDE DEF gone
    <3>2. /\ DOMAIN ours.reactions =
               {r \in DOMAIN mirror.reactions :
                  mirror.reactions[r].on \in {c \in DOMAIN mirror.comments : mirror.comments[c].on \in es}}
          /\ DOMAIN ours.entryReactions =
               {r \in DOMAIN mirror.entryReactions : mirror.entryReactions[r].on \in es}
      BY <2>2, OnlyThreadsKeeps
    <3> HIDE DEF ours
    <3> QED BY <3>1, <3>2
  <2>9. /\ \A c \in DOMAIN mirror.comments : c \in DOMAIN s.comments => s.comments[c] = mirror.comments[c]
        /\ \A r \in DOMAIN mirror.reactions : r \in DOMAIN s.reactions => s.reactions[r] = mirror.reactions[r]
        /\ \A r \in DOMAIN mirror.entryReactions :
             r \in DOMAIN s.entryReactions => s.entryReactions[r] = mirror.entryReactions[r]
    BY <2>2 DEF Alike, Agree
  <2>10. (DOMAIN mirror.entries) \ (DOMAIN s.entries) \subseteq es
    BY <1>1 DEF TableInv, SeenInv
  <2>11. Rooted(mirror) /\ Labelled(mirror)
    BY DEF KnowInv, TableInv, LabelInv
  <2> HIDE DEF t, ds, gone, s, es
  <2>12. \A r \in (DOMAIN mirror.reactions) \ DOMAIN t.reactions : r \in gone.reactions
    <3> SUFFICES ASSUME NEW r \in (DOMAIN mirror.reactions) \ DOMAIN t.reactions
                 PROVE  r \in gone.reactions
      OBVIOUS
    <3> DEFINE c == mirror.reactions[r].on
               e == mirror.comments[c].on
    <3>1. c \in DOMAIN mirror.comments /\ e \in DOMAIN mirror.entries
      BY <2>11 DEF Rooted
    <3>2. r \notin DOMAIN s.reactions
      BY <2>4, <2>5, <2>9
    <3>3. e \in es
      BY <2>4, <2>10, <3>1
    <3> QED BY <2>8, <3>1, <3>2, <3>3
  <2>13. \A r \in (DOMAIN mirror.entryReactions) \ DOMAIN t.entryReactions : r \in gone.entryReactions
    <3> SUFFICES ASSUME NEW r \in (DOMAIN mirror.entryReactions) \ DOMAIN t.entryReactions
                 PROVE  r \in gone.entryReactions
      OBVIOUS
    <3>1. mirror.entryReactions[r].on \in DOMAIN mirror.entries
      BY <2>11 DEF Rooted
    <3>2. r \notin DOMAIN s.entryReactions
      BY <2>4, <2>5
    <3>3. mirror.entryReactions[r].on \in es
      BY <2>4, <2>10, <3>1
    <3> QED BY <2>8, <3>2, <3>3
  <2>14. ASSUME NEW k \in queue, {k.id, k.post} \cap lost = {}
         PROVE  Holds(k)' \/ \E d \in ds : Kills(d, k)
    <3>1. Holds(k) /\ Filed(k)
      BY <1>2, <2>14 DEF TaskInv
    <3>2. CASE k.type \in {"entry", "comment"}
      <4>1. k.post \in DOMAIN mirror.entries
        BY <3>1, <3>2 DEF Holds, Filed
      <4>2. CASE k.post \in DOMAIN s.entries
        BY <2>1, <2>4, <3>1, <3>2, <4>2 DEF Holds, Filed
      <4>3. CASE k.post \notin DOMAIN s.entries
        <5> DEFINE d == Change(9, "entry", "delete", k.post, k.post)
        <5>1. d \in ds
          BY <2>6, <4>1, <4>3
        <5>2. Kills(d, k)
          BY DEF Kills, Change
        <5> QED BY <5>1, <5>2
      <4> QED BY <4>2, <4>3
    <3>3. CASE k.type = "label"
      <4>1. k.act = "create" <=> k.id \in mirror.tags
        BY <3>1, <3>3 DEF Holds
      <4>2. CASE k.id \in mirror.tags <=> k.id \in t.tags
        BY <2>1, <3>3, <4>1, <4>2 DEF Holds
      <4>3. CASE k.id \in t.tags \ mirror.tags
        <5> DEFINE d == Change(3, "label", "create", k.id, k.id[1])
        <5>1. d \in ds
          BY <2>3, <2>6, <4>3
        <5>2. Kills(d, k)
          BY <3>3 DEF Kills, Change
        <5> QED BY <5>1, <5>2
      <4>4. CASE k.id \in mirror.tags \ s.tags
        BY <2>6, <3>3, <4>4 DEF Kills, Change
      <4>5. CASE k.id \in (mirror.tags \cap s.tags) \ t.tags
        <5>1. k.id[1] \in (DOMAIN mirror.entries) \ DOMAIN s.entries
          BY <2>3, <2>5, <4>5
        <5>2. k.post = k.id[1]
          BY <3>1, <3>3 DEF Filed
        <5> QED BY <2>6, <5>1, <5>2 DEF Kills, Change
      <4> QED BY <2>3, <4>2, <4>3, <4>4, <4>5
    <3>4. CASE k.type = "reaction"
      <4>1. k.act = "create" <=> k.id \in DOMAIN mirror.reactions
        BY <3>1, <3>4 DEF Holds
      <4>2. CASE k.id \in DOMAIN mirror.reactions <=> k.id \in DOMAIN t.reactions
        BY <2>1, <3>4, <4>1, <4>2 DEF Holds
      <4>3. CASE k.id \in (DOMAIN mirror.reactions) \ DOMAIN t.reactions
        <5> DEFINE d == Change(7, "reaction", "delete", k.id, mirror.reactions[k.id].on)
        <5>1. d \in ds
          BY <2>6, <2>12, <4>3
        <5>2. Kills(d, k)
          BY <3>4 DEF Kills, Change
        <5> QED BY <5>1, <5>2
      <4>4. CASE k.id \in (DOMAIN t.reactions) \ DOMAIN mirror.reactions
        <5> DEFINE d == Change(5, "reaction", "create", k.id, s.reactions[k.id].on)
        <5>1. d \in ds
          BY <2>4, <2>6, <4>4
        <5>2. Kills(d, k)
          BY <3>4 DEF Kills, Change
        <5> QED BY <5>1, <5>2
      <4> QED BY <4>2, <4>3, <4>4
    <3>5. CASE k.type = "entryReaction"
      <4>1. k.act = "create" <=> k.id \in DOMAIN mirror.entryReactions
        BY <3>1, <3>5 DEF Holds
      <4>2. CASE k.id \in DOMAIN mirror.entryReactions <=> k.id \in DOMAIN t.entryReactions
        BY <2>1, <3>5, <4>1, <4>2 DEF Holds
      <4>3. CASE k.id \in (DOMAIN mirror.entryReactions) \ DOMAIN t.entryReactions
        <5> DEFINE d == Change(7, "entryReaction", "delete", k.id, mirror.entryReactions[k.id].on)
        <5>1. d \in ds
          BY <2>6, <2>13, <4>3
        <5>2. Kills(d, k)
          BY <3>5 DEF Kills, Change
        <5> QED BY <5>1, <5>2
      <4>4. CASE k.id \in (DOMAIN t.entryReactions) \ DOMAIN mirror.entryReactions
        <5> DEFINE d == Change(5, "entryReaction", "create", k.id, s.entryReactions[k.id].on)
        <5>1. d \in ds
          BY <2>4, <2>6, <4>4
        <5>2. Kills(d, k)
          BY <3>5 DEF Kills, Change
        <5> QED BY <5>1, <5>2
      <4> QED BY <4>2, <4>3, <4>4
    <3> QED BY <3>1, <3>2, <3>3, <3>4, <3>5 DEF Filed
  <2>15. ASSUME NEW c \in ds, ~Teardown(c)
         PROVE  Holds(Task(c))' \/ \E d \in ds : c.rank < d.rank /\ Kills(d, Task(c))
    <3>1. \/ c.type = "entry" /\ c.id \in DOMAIN s.entries
          \/ /\ c.type = "label" /\ c.act = "create" /\ c.rank = 3
             /\ c.id \in s.tags \ mirror.tags /\ c.post = c.id[1]
          \/ /\ c.type = "label" /\ c.act = "delete" /\ c.id \in mirror.tags \ s.tags
          \/ /\ c.type = "comment" /\ c.id \in DOMAIN s.comments /\ c.post = s.comments[c.id].on
          \/ c.type = "reaction" /\ c.act = "create" /\ c.id \in DOMAIN s.reactions
          \/ c.type = "reaction" /\ c.act = "delete" /\ c.id \in gone.reactions
          \/ c.type = "entryReaction" /\ c.act = "create" /\ c.id \in DOMAIN s.entryReactions
          \/ c.type = "entryReaction" /\ c.act = "delete" /\ c.id \in gone.entryReactions
      BY <2>15, Reported DEF ds, gone
    <3>2. /\ Task(c).type = c.type /\ Task(c).id = c.id /\ Task(c).post = c.post /\ Task(c).act = c.act
      BY DEF Task
    <3>3. CASE c.type = "entry"
      BY <2>1, <2>4, <3>1, <3>2, <3>3 DEF Holds
    <3>4. CASE c.type = "comment"
      BY <2>1, <2>4, <2>5, <3>1, <3>2, <3>4 DEF Holds
    <3>5. CASE c.type = "label" /\ c.act = "create"
      <4>1. c.rank = 3 /\ c.id \in s.tags /\ c.post = c.id[1]
        BY <3>1, <3>5
      <4>2. CASE c.id[1] \in DOMAIN s.entries
        <5>1. c.id \in t.tags
          BY <2>3, <2>5, <4>1, <4>2
        <5> QED BY <2>1, <3>2, <3>5, <5>1 DEF Holds
      <4>3. CASE c.id[1] \notin DOMAIN s.entries
        <5> DEFINE d == Change(9, "entry", "delete", c.id[1], c.id[1])
        <5>1. d \in ds
          BY <2>5, <2>6, <4>1, <4>3
        <5>2. c.rank < d.rank /\ Kills(d, Task(c))
          BY <3>2, <4>1 DEF Kills, Change
        <5> QED BY <5>1, <5>2
      <4> QED BY <4>2, <4>3
    <3>6. CASE c.type = "label" /\ c.act = "delete"
      BY <2>1, <2>3, <3>1, <3>2, <3>6 DEF Holds
    <3>7. CASE c.type = "reaction"
      <4>1. c.act = "create" <=> c.id \in DOMAIN t.reactions
        BY <2>4, <2>5, <2>8, <3>1, <3>7
      <4> QED BY <2>1, <3>2, <3>7, <4>1 DEF Holds
    <3>8. CASE c.type = "entryReaction"
      <4>1. c.act = "create" <=> c.id \in DOMAIN t.entryReactions
        BY <2>4, <2>5, <2>8, <3>1, <3>8
      <4> QED BY <2>1, <3>2, <3>8, <4>1 DEF Holds
    <3> QED BY <3>1, <3>3, <3>4, <3>5, <3>6, <3>7, <3>8
  <2> QED BY <1>1, <2>1, <2>7, <2>14, <2>15 DEF TaskInv
<1> QED BY <1>3, <1>4

\* A change is delivered: it takes away the tasks it kills, and the changes left are no earlier.
LEMMA DeliverTasks ==
  ASSUME TaskInv, Deliver
  PROVE  TaskInv'
<1>1. PICK c \in changes :
        /\ \A d \in changes : c.rank <= d.rank
        /\ changes' = changes \ {c}
        /\ queue' = IF Teardown(c) THEN queue \ Swept(c.id)
                    ELSE IF c.type = "comment" /\ c.id \in Platform THEN queue
                    ELSE (queue \ Superseded(c)) \cup {Task(c)}
        /\ UNCHANGED <<mirror, poll, lost>>
  BY DEF Deliver
<1>2. \A t : Holds(t)' <=> Holds(t)
  BY <1>1 DEF Holds
<1>3. /\ Task(c).type = c.type /\ Task(c).id = c.id /\ Task(c).post = c.post /\ Task(c).act = c.act
  BY DEF Task
<1>4. ASSUME NEW d \in changes', ~Teardown(d)
      PROVE  Holds(Task(d)) \/ \E x \in changes' : d.rank < x.rank /\ Kills(x, Task(d))
  <2>1. Holds(Task(d)) \/ \E x \in changes : d.rank < x.rank /\ Kills(x, Task(d))
    BY <1>1, <1>4 DEF TaskInv
  <2>2. \A x \in changes : d.rank < x.rank => x # c
    BY <1>1 DEF TaskInv
  <2> QED BY <1>1, <2>1, <2>2
<1>5. ASSUME NEW t \in queue', {t.id, t.post} \cap lost = {}
      PROVE  Filed(t) /\ (Holds(t) \/ \E x \in changes' : Kills(x, t))
  <2>1. CASE ~Teardown(c) /\ t = Task(c)
    <3>1. Filed(t)
      BY <2>1 DEF TaskInv
    <3>2. Holds(t) \/ \E x \in changes : c.rank < x.rank /\ Kills(x, t)
      BY <2>1 DEF TaskInv
    <3>3. \A x \in changes : c.rank < x.rank => x # c
      BY DEF TaskInv
    <3> QED BY <1>1, <3>1, <3>2, <3>3
  <2>2. CASE Teardown(c) \/ t # Task(c)
    <3>1. t \in queue
      BY <1>1, <2>2
    <3>2. Filed(t) /\ (Holds(t) \/ \E x \in changes : Kills(x, t))
      BY <1>5, <3>1 DEF TaskInv
    <3>3. ~Kills(c, t)
      <4>1. CASE Teardown(c)
        <5>1. t.post # c.id
          BY <1>1, <3>1, <4>1 DEF Swept
        <5> QED BY <4>1, <5>1 DEF Kills, Teardown
      <4>2. CASE ~Teardown(c)
        <5>1. ~(c.type = "entry" /\ c.act = "delete")
          BY <4>2 DEF Teardown
        <5>2. c.type \in {"label", "reaction", "entryReaction"} => t \notin Superseded(c)
          BY <1>1, <2>2, <4>2
        <5> QED BY <3>1, <5>1, <5>2 DEF Kills, Superseded
      <4> QED BY <4>1, <4>2
    <3> QED BY <1>1, <3>2, <3>3
  <2> QED BY <2>1, <2>2
<1>6. \A t \in queue' : Filed(t)
  BY <1>1 DEF TaskInv
<1>7. \A d \in changes' : d.rank \in Nat /\ Filed(Task(d))
  BY <1>1 DEF TaskInv
<1>8. changes' # {} => poll' = Idle
  BY <1>1 DEF TaskInv
<1> QED BY <1>1, <1>2, <1>4, <1>5, <1>6, <1>7, <1>8 DEF TaskInv

\* Every step keeps the tasks current.
LEMMA StepTasks ==
  ASSUME KnowInv, TableInv, TaskInv, [Next]_vars
  PROVE  TaskInv'
<1>1. CASE People \/ TouchAfter
  <2>1. UNCHANGED <<mirror, poll, changes, queue, lost>>
    BY <1>1, RemoteSteps DEF KnowInv
  <2>2. changes = {} \/ poll' = Idle
    BY <2>1 DEF TaskInv
  <2> QED BY <2>1, <2>2, StillTasks
<1>2. CASE ReadLabels \/ ReadRelations \/ ReadRows \/ ReadChangedThreads
           \/ ListEntries \/ GetEntry \/ GetThread \/ GetPulls
  <2>1. UNCHANGED <<mirror, changes, queue, lost>>
    BY <1>2 DEF ReadLabels, ReadRelations, ReadRows, ReadChangedThreads, ListEntries, GetEntry,
                GetThread, GetPulls, Read
  <2>2. changes = {} \/ poll.at # "idle"
    <3>1. CASE GetThread
      <4>1. poll.at \in Entries
        BY <3>1 DEF GetThread, KnowInv, RemoteInv, Known
      <4> QED BY <4>1, SyncAssumption DEF Stages
    <3> QED BY <1>2, <3>1 DEF ReadLabels, ReadRelations, ReadRows, ReadChangedThreads, ListEntries,
                              GetEntry, GetPulls
  <2>3. changes = {}
    BY <2>2 DEF TaskInv, Idle
  <2> QED BY <2>1, <2>3, StillTasks
<1>3. CASE EntryGone \/ RequestFails
  <2>1. poll' = Idle /\ UNCHANGED <<mirror, changes, queue, lost>>
    BY <1>3 DEF EntryGone, RequestFails, Abort
  <2> QED BY <2>1, StillTasks
<1>4. CASE Commit
  BY <1>4, CommitTasks
<1>5. CASE Deliver
  BY <1>5, DeliverTasks
<1>6. CASE Handle
  <2>1. /\ queue' \subseteq queue /\ changes = {}
        /\ UNCHANGED <<mirror, poll, changes, lost>>
    BY <1>6 DEF Handle
  <2>2. \A t : Holds(t)' <=> Holds(t)
    BY <2>1 DEF Holds
  <2> QED BY <2>1, <2>2 DEF TaskInv
<1>7. CASE Crash
  <2>1. /\ changes' = {} /\ lost' = lost \cup {c.id : c \in changes} /\ UNCHANGED <<mirror, queue>>
    BY <1>7 DEF Crash
  <2>2. \A t : Holds(t)' <=> Holds(t)
    BY <2>1 DEF Holds
  <2>3. ASSUME NEW t \in queue, {t.id, t.post} \cap lost' = {}
        PROVE  Holds(t)
    <3>1. Holds(t) \/ \E d \in changes : Kills(d, t)
      BY <2>1, <2>3 DEF TaskInv
    <3>2. \A d \in changes : Kills(d, t) => d.id \in {t.id, t.post}
      BY DEF Kills
    <3> QED BY <2>1, <2>3, <3>1, <3>2
  <2> QED BY <2>1, <2>2, <2>3 DEF TaskInv
<1>8. CASE UNCHANGED vars
  <2>1. UNCHANGED <<mirror, poll, changes, queue, lost>>
    BY <1>8 DEF vars
  <2>2. changes = {} \/ poll' = Idle
    BY <2>1 DEF TaskInv
  <2> QED BY <2>1, <2>2, StillTasks
<1> QED BY <1>1, <1>2, <1>3, <1>4, <1>5, <1>6, <1>7, <1>8 DEF Next, Poll

\* Once the changes of a poll are delivered, no pending task tells of a state the mirror has
\* left, for every seed, any writes and polls, and any crash that did not take its changes:
\* superseding and teardown (sync_to_db._supersede, _teardown_post) reach every such task.
THEOREM TasksStayCurrent == Spec => []TasksCurrent
<1>1. Init => KnowInv /\ TableInv /\ TaskInv
  <2>1. Init => TaskInv
    BY DEF Init, TaskInv
  <2> QED BY <2>1, InitKnows, InitTables
<1>2. KnowInv /\ TableInv /\ TaskInv /\ [Next]_vars => (KnowInv /\ TableInv /\ TaskInv)'
  BY StepKnows, StepTables, StepTasks
<1>3. TaskInv => TasksCurrent
  BY DEF TaskInv, TasksCurrent
<1> QED BY <1>1, <1>2, <1>3, PTL DEF Spec

=============================================================================
