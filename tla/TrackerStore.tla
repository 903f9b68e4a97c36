---------------------------- MODULE TrackerStore ----------------------------
(***************************************************************************)
(* One tracker database, as tracking/tracking_local.py keeps it: the class *)
(* TrackingLocal serves both as the mirror and, under the local provider,  *)
(* as the remote.  A store is a value; an operation maps a store to the    *)
(* store its transaction commits.                                          *)
(*                                                                         *)
(* A row's text (title, body, author, assignees) is abstracted to the      *)
(* number of the write that set it, "rev"; "stamp" is its updated_at.      *)
(* "now" is the pair of both that the writer uses.                         *)
(***************************************************************************)
EXTENDS Naturals, FiniteSets

NoRows == [x \in {} |-> 0]
Put(f, k, row) == [x \in (DOMAIN f) \cup {k} |-> IF x = k THEN row ELSE f[x]]
Keep(f, ks)    == [x \in (DOMAIN f) \cap ks |-> f[x]]
RowsOn(f, ps)  == {x \in DOMAIN f : f[x].on \in ps}

Tables  == {"labels", "entries", "tags", "pins", "comments", "reactions", "entryReactions",
            "pulls", "pullTags", "pullComments", "pullReactions"}
IsStore(s) == s = [f \in Tables |-> s[f]]

EmptyStore ==
  [labels |-> {}, entries |-> NoRows, tags |-> {}, pins |-> {},
   comments |-> NoRows, reactions |-> NoRows, entryReactions |-> NoRows,
   pulls |-> NoRows, pullTags |-> {}, pullComments |-> NoRows, pullReactions |-> NoRows]

----------------------------------------------------------------------------
(* Foreign keys, ON DELETE CASCADE *)

\* rows of a child table whose parent exists
Owned(f, parents) == Keep(f, {x \in DOMAIN f : f[x].on \in parents})

Cascade(s) ==
  LET comments == Owned(s.comments, DOMAIN s.entries)
      notes    == Owned(s.pullComments, DOMAIN s.pulls) IN
  [s EXCEPT !.tags           = @ \cap ((DOMAIN s.entries) \X s.labels),
            !.pins           = @ \cap (DOMAIN s.entries),
            !.comments       = comments,
            !.reactions      = Owned(@, DOMAIN comments),
            !.entryReactions = Owned(@, DOMAIN s.entries),
            !.pullTags       = @ \cap ((DOMAIN s.pulls) \X s.labels),
            !.pullComments   = notes,
            !.pullReactions  = Owned(@, DOMAIN notes)]

\* an INSERT that would break this raises, and the transaction is rolled back
ForeignKeys(s) == s = Cascade(s)

----------------------------------------------------------------------------
(* Operations on entries *)

NewRow(now) == [open |-> TRUE, rev |-> now.rev, stamp |-> now.stamp]

Touch(s, e, now) == [s EXCEPT !.entries[e].stamp = now.stamp]

AddEntry(s, e, ls, now) ==
  [s EXCEPT !.entries = Put(@, e, NewRow(now)),
            !.labels  = @ \cup ls,
            !.tags    = @ \cup ({e} \X ls)]

\* a new title, body or set of assignees
EditEntry(s, e, now) == Touch([s EXCEPT !.entries[e].rev = now.rev], e, now)

SetEntryState(s, e, open, now) == Touch([s EXCEPT !.entries[e].open = open], e, now)

\* a pin is no change of the entry: updated_at stays
PinEntry(s, e) == [s EXCEPT !.pins = @ \cup {e}]

DeleteEntry(s, e) == Cascade([s EXCEPT !.entries = Keep(@, (DOMAIN @) \ {e})])

AddEntryComment(s, e, c, now) ==
  Touch([s EXCEPT !.comments = Put(@, c, [on |-> e, rev |-> now.rev, stamp |-> now.stamp])],
        e, now)

AddCommentReaction(s, c, r, now) ==
  Touch([s EXCEPT !.reactions = Put(@, r, [on |-> c])], s.comments[c].on, now)

BugAddEntryReaction(s, e, r, now) ==
  [s EXCEPT !.entryReactions = Put(@, r, [on |-> e])]

AddEntryReaction(s, e, r, now) ==
  Touch([s EXCEPT !.entryReactions = Put(@, r, [on |-> e])], e, now)

\* the label is created on the way; the entry is touched though it had the label
AddEntryLabel(s, e, l, now) ==
  Touch([s EXCEPT !.labels = @ \cup {l}, !.tags = @ \cup {<<e, l>>}], e, now)

RemoveEntryLabel(s, e, l, now) ==
  IF <<e, l>> \in s.tags THEN Touch([s EXCEPT !.tags = @ \ {<<e, l>>}], e, now) ELSE s

CreateLabel(s, l) == [s EXCEPT !.labels = @ \cup {l}]

\* the prune of populate_defaults, which touches no entry
DeleteLabel(s, l) == Cascade([s EXCEPT !.labels = @ \ {l}])

----------------------------------------------------------------------------
(* Operations on pull requests *)

TouchPull(s, p, now) == [s EXCEPT !.pulls[p].stamp = now.stamp]

AddPull(s, p, ls, now) ==
  [s EXCEPT !.pulls    = Put(@, p, NewRow(now)),
            !.labels   = @ \cup ls,
            !.pullTags = @ \cup ({p} \X ls)]

AddPullComment(s, p, c, now) ==
  TouchPull([s EXCEPT !.pullComments =
                        Put(@, c, [on |-> p, rev |-> now.rev, stamp |-> now.stamp])],
            p, now)

AddPullCommentReaction(s, c, r, now) ==
  TouchPull([s EXCEPT !.pullReactions = Put(@, r, [on |-> c])], s.pullComments[c].on, now)

SetPullClosed(s, p, now) == TouchPull([s EXCEPT !.pulls[p].open = FALSE], p, now)

----------------------------------------------------------------------------
(* Reading *)

LabelsFor(s, e)      == {l \in s.labels : <<e, l>> \in s.tags}
EntryForComment(s, c) == IF c \in DOMAIN s.comments THEN {s.comments[c].on} ELSE {}
=============================================================================
