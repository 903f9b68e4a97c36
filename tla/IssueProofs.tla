----------------------------- MODULE IssueProofs -----------------------------
(***************************************************************************)
(* For any set of issues, any configurations and dependencies, and any     *)
(* bounds: the types of IssueLifecycle, and that an issue reads done only  *)
(* when it is merged, is merged only when people asked for it, is          *)
(* implemented only after what it depends on, and is sent back by reviews  *)
(* fewer times than they are allowed; and that all of it together          *)
(* implements Delivery, whose promise it therefore keeps.                  *)
(***************************************************************************)
EXTENDS IssueProperties, TLAPS

(* Entries before the bound on approval requests is checked *)
LooseGate  == [apr: Nat, by: SUBSET Signals]
LooseEntry == [labels: SUBSET Statuses, open: BOOLEAN, gate: [GateKinds -> LooseGate],
               reviews: Nat, said: SUBSET Signals, last: Words \cup {"none"}, spoken: Nat]

\* What a handler may make of the entry r: no signal is added, and no done.
Follows(e, r) ==
  /\ e \in LooseEntry
  /\ e.said = r.said
  /\ \A g \in GateKinds : e.gate[g].by \subseteq r.gate[g].by
  /\ e.labels \subseteq r.labels \cup (Statuses \ {"done"})

----------------------------------------------------------------------------
(* Entries *)

\* LastApr is the largest of the numbers of the three gates.
LEMMA LastAprIsMax ==
  ASSUME NEW e, e.gate \in [GateKinds -> LooseGate]
  PROVE  /\ LastApr(e) \in Nat
         /\ \A g \in GateKinds : e.gate[g].apr <= LastApr(e)
         /\ \E g \in GateKinds : LastApr(e) = e.gate[g].apr
<1> DEFINE S == {e.gate[g].apr : g \in GateKinds}
<1>1. \A g \in GateKinds : e.gate[g].apr \in Nat
  BY DEF LooseGate
<1>2. \E n \in S : \A g \in GateKinds : e.gate[g].apr <= n
  <2> DEFINE a == e.gate["ask"].apr
             b == e.gate["pure"].apr
             c == e.gate["combined"].apr
  <2>1. a \in Nat /\ b \in Nat /\ c \in Nat
    BY <1>1 DEF GateKinds
  <2>2. S = {a, b, c}
    BY DEF GateKinds
  <2>3. \A n : (\A g \in GateKinds : e.gate[g].apr <= n) <=> a <= n /\ b <= n /\ c <= n
    BY DEF GateKinds
  <2> HIDE DEF a, b, c
  <2>4. \E n \in {a, b, c} : a <= n /\ b <= n /\ c <= n
    BY <2>1
  <2> QED BY <2>2, <2>3, <2>4
<1>3. LastApr(e) \in S /\ \A g \in GateKinds : e.gate[g].apr <= LastApr(e)
  BY <1>2 DEF LastApr
<1> QED BY <1>1, <1>3

\* An entry of the tracker is one whose bound is respected.
LEMMA EntryIsLoose ==
  ASSUME NEW e \in Entry
  PROVE  e \in LooseEntry /\ LastApr(e) <= MaxApr
<1>1. e \in LooseEntry
  BY LifecycleAssumption DEF Entry, LooseEntry, Gate, LooseGate
<1>2. e.gate \in [GateKinds -> LooseGate]
  BY <1>1 DEF LooseEntry
<1>3. \A g \in GateKinds : e.gate[g].apr <= MaxApr
  BY LifecycleAssumption DEF Entry, Gate
<1> QED BY <1>1, <1>2, <1>3, LastAprIsMax

\* And one whose bound is respected is an entry of the tracker.
LEMMA BoundedIsEntry ==
  ASSUME NEW e \in LooseEntry, LastApr(e) <= MaxApr
  PROVE  e \in Entry
<1>1. e.gate \in [GateKinds -> LooseGate]
  BY DEF LooseEntry
<1>2. \A g \in GateKinds : e.gate[g].apr \in 0..MaxApr
  BY <1>1, LastAprIsMax, LifecycleAssumption DEF LooseGate
<1>3. \A g \in GateKinds : e.gate[g] \in Gate
  BY <1>1, <1>2 DEF LooseGate, Gate
<1>4. e.gate \in [GateKinds -> Gate]
  BY <1>1, <1>3
<1> QED BY <1>4 DEF LooseEntry, Entry

\* A handler may leave the entry as it is.
LEMMA FollowsSelf ==
  ASSUME NEW r \in LooseEntry
  PROVE  Follows(r, r)
  BY DEF Follows

\* It may set any status but done.
LEMMA FollowsSetStatus ==
  ASSUME NEW r \in LooseEntry, NEW e, Follows(e, r),
         NEW known, NEW s \in Statuses \ {"done"}
  PROVE  Follows(SetStatus(e, known, s), r) /\ SetStatus(e, known, s).gate = e.gate
<1> DEFINE l == (e.labels \ known) \cup {s}
<1>1. SetStatus(e, known, s) = [e EXCEPT !.labels = l]
  BY DEF SetStatus
<1>2. e \in LooseEntry
  BY DEF Follows
<1>3. l \subseteq Statuses /\ l \subseteq r.labels \cup (Statuses \ {"done"})
  BY <1>2 DEF LooseEntry, Follows
<1> HIDE DEF l
<1> DEFINE f == [e EXCEPT !.labels = l]
<1>4. f \in LooseEntry /\ f.said = e.said /\ f.gate = e.gate /\ f.labels = l
  BY <1>2, <1>3 DEF LooseEntry
<1> HIDE DEF f
<1>5. Follows(f, r)
  BY <1>3, <1>4 DEF Follows
<1> QED BY <1>1, <1>4, <1>5 DEF f

\* The gate that is asked for is the latest, and nobody has reacted on it.
LEMMA FollowsAsk ==
  ASSUME NEW r \in LooseEntry, NEW e, Follows(e, r), NEW g \in GateKinds
  PROVE  Follows(Ask(e, g), r) /\ LastApr(Ask(e, g)) <= LastApr(e) + 1
<1>1. e \in LooseEntry /\ e.gate \in [GateKinds -> LooseGate]
  BY DEF Follows, LooseEntry
<1> DEFINE n == LastApr(e) + 1
           x == [apr |-> n, by |-> {}]
           G == [e.gate EXCEPT ![g] = x]
           f == [e EXCEPT !.gate = G]
<1>2. Ask(e, g) = f
  BY <1>1 DEF Ask, LooseEntry
<1>3. n \in Nat /\ LastApr(e) \in Nat
  BY <1>1, LastAprIsMax
<1>4. x \in LooseGate /\ x.by = {} /\ x.apr = n
  BY <1>3 DEF LooseGate
<1> HIDE DEF x
<1>5. G \in [GateKinds -> LooseGate]
      /\ \A h \in GateKinds : G[h] = IF h = g THEN x ELSE e.gate[h]
  BY <1>1, <1>4
<1> HIDE DEF G
<1>6. f \in LooseEntry /\ f.said = e.said /\ f.labels = e.labels /\ f.gate = G
  BY <1>1, <1>5 DEF LooseEntry
<1> HIDE DEF f
<1>7. \A h \in GateKinds : f.gate[h].by \subseteq r.gate[h].by
  BY <1>4, <1>5, <1>6 DEF Follows
<1>8. Follows(f, r)
  BY <1>6, <1>7 DEF Follows
<1>9. LastApr(f) <= n
  <2>1. \A h \in GateKinds : f.gate[h].apr <= n
    <3>1. \A h \in GateKinds : e.gate[h].apr <= LastApr(e) /\ e.gate[h].apr \in Nat
      BY <1>1, LastAprIsMax DEF LooseGate
    <3> QED BY <1>3, <1>4, <1>5, <1>6, <3>1
  <2>2. \E h \in GateKinds : LastApr(f) = f.gate[h].apr
    BY <1>5, <1>6, LastAprIsMax
  <2> QED BY <2>1, <2>2
<1> QED BY <1>2, <1>8, <1>9

\* It may post a review.
LEMMA FollowsReviews ==
  ASSUME NEW r \in LooseEntry
  PROVE  /\ Follows([r EXCEPT !.reviews = @ + 1], r)
         /\ [r EXCEPT !.reviews = @ + 1].gate = r.gate
  BY DEF Follows, LooseEntry

----------------------------------------------------------------------------
(* What the handlers decide *)

\* A person has signed for the merge, as far as the entry tells.
Backed(e) ==
  \/ \E g \in GateKinds : e.gate[g].by \cap {"approve", "merge"} # {}
  \/ e.said \cap {"approve", "merge"} # {}

\* A decision is made from the remote entry r; where merges are gated, it merges only
\* what the mirror's entry c shows a signature for.
Sound(d, c, r) ==
  /\ Follows(d.entry, r)
  /\ d.git \in {"no", "ready", "land", "merge"}
  /\ config.gated /\ d.git \in {"land", "merge"} => Backed(c)

\* A decision that schedules no git action is sound when its entry is.
LEMMA OnlySound ==
  ASSUME NEW r, NEW c, NEW e, Follows(e, r)
  PROVE  Sound(Only(e), c, r)
  BY DEF Sound, Only

\* So is one that only sets a status.
LEMMA ToStatusSound ==
  ASSUME NEW r \in LooseEntry, NEW e, Follows(e, r), NEW c, NEW s \in Statuses \ {"done"}
  PROVE  Sound(ToStatus(c, e, s), c, r)
  BY OnlySound, FollowsSetStatus DEF ToStatus

\* And one that asks people, after setting a status.
LEMMA AskSound ==
  ASSUME NEW r \in LooseEntry, NEW e, Follows(e, r), NEW c, NEW g \in GateKinds,
         NEW s \in Statuses \ {"done"}
  PROVE  Sound(Only(Ask(SetStatus(e, c.labels, s), g)), c, r)
  BY OnlySound, FollowsAsk, FollowsSetStatus

\* Settling the issue schedules a merge only where merges are not gated.
LEMMA SettleSound ==
  ASSUME NEW r, NEW c, NEW e, Follows(e, r)
  PROVE  Sound(SettleOrMerge(e), c, r)
  BY DEF Sound, SettleOrMerge, WithGit

\* Signals are read off the conversation.
LEMMA SignalsBack ==
  ASSUME NEW c
  PROVE  /\ \A g \in GateKinds : GateSignals(c, g) \cap {"approve", "merge"} # {} => Backed(c)
         /\ PlainSignals(c) \cap {"approve", "merge"} # {} => Backed(c)
  BY DEF GateSignals, PlainSignals, Backed

\* Sending the issue back is sound.
LEMMA ReworkedSound ==
  ASSUME NEW r \in LooseEntry, NEW c, NEW k
  PROVE  Sound(Reworked(c, r, k), c, r)
<1>1. Sound(Only(r), c, r)
  BY OnlySound, FollowsSelf
<1>2. Sound(ToStatus(c, r, "todo"), c, r)
  BY ToStatusSound, FollowsSelf DEF Statuses
<1> QED BY <1>1, <1>2 DEF Reworked

\* Whatever the parked status, what people said of it is resolved soundly.
LEMMA ResolutionSound ==
  ASSUME NEW r \in LooseEntry, NEW c, NEW k, NEW judged \in Parked
  PROVE  Sound(Resolution(judged, c, r, k), c, r)
<1>0. Follows(r, r) /\ "pure" \in GateKinds /\ "combined" \in GateKinds
      /\ "awaiting_merge" \in Statuses \ {"done"} /\ "todo" \in Statuses \ {"done"}
  BY FollowsSelf DEF GateKinds, Statuses
<1>1. \A g : Backed(c) => (g \in {"ready", "land"} => Sound(WithGit(r, g), c, r))
  BY <1>0 DEF Sound, WithGit
<1>2. Sound(WithGit(r, "ready"), c, r)
  BY <1>0 DEF Sound, WithGit
<1>3. Sound(Only(r), c, r) /\ Sound(Reworked(c, r, k), c, r)
  BY <1>0, OnlySound, ReworkedSound
<1>4. Sound(ResolvePure(c, r), c, r)
  <2>1. Sound(Only(Ask(SetStatus(r, c.labels, "awaiting_merge"), "pure")), c, r)
    BY <1>0, AskSound
  <2>2. GateSignals(c, "pure") \cap {"approve", "merge"} # {} => Sound(WithGit(r, "land"), c, r)
    BY <1>0, <1>1, SignalsBack
  <2> QED BY <1>3, <2>1, <2>2 DEF ResolvePure
<1>5. Sound(ResolveCombined(c, r, k), c, r)
  <2>1. "merge" \in GateSignals(c, "combined") => Sound(WithGit(r, "land"), c, r)
    BY <1>0, <1>1, SignalsBack
  <2> QED BY <1>2, <1>3, <2>1 DEF ResolveCombined
<1>6. Sound(ResolvePlain(c, r, k), c, r)
  <2>1. Sound(SettleOrMerge(r), c, r) /\ Sound(ToStatus(c, r, "todo"), c, r)
    BY <1>0, SettleSound, ToStatusSound
  <2> QED BY <1>3, <2>1 DEF ResolvePlain
<1>7. Sound(ResolveApproval(c, r, k), c, r)
  BY <1>4, <1>5, <1>6 DEF ResolveApproval
<1>8. Sound(ResolveAwaitingMerge(c, r, k), c, r)
  <2>1. GateSignals(c, "pure") \cap {"approve", "merge"} # {} => Sound(WithGit(r, "land"), c, r)
    BY <1>0, <1>1, SignalsBack
  <2> QED BY <1>3, <2>1 DEF ResolveAwaitingMerge
<1>9. Sound(ResolveBlocked(c, r, k), c, r)
  <2>1. Directive(c, k) \in {"approve", "merge"} => c.last \in {"approve", "merge"}
    BY DEF Directive
  <2>2. Directive(c, k) \in {"approve", "merge"} /\ c.last \in c.said => Backed(c)
    BY <2>1 DEF Backed
  <2> QED BY <1>1, <1>2, <1>3, <2>2 DEF ResolveBlocked
<1> QED BY <1>7, <1>8, <1>9 DEF Resolution, Parked

\* What follows an implementation is sound.
LEMMA AfterImplementSound ==
  ASSUME NEW r \in LooseEntry, NEW c, NEW report
  PROVE  Sound(AfterImplement(c, r, report), c, r)
<1>0. Follows(r, r) /\ "ask" \in GateKinds /\ "blocked" \in Statuses \ {"done"}
      /\ "in_review" \in Statuses \ {"done"} /\ "awaiting_approval" \in Statuses \ {"done"}
  BY FollowsSelf DEF GateKinds, Statuses
<1>1. Sound(ToStatus(c, r, "blocked"), c, r) /\ Sound(ToStatus(c, r, "in_review"), c, r)
  BY <1>0, ToStatusSound
<1>2. Sound(Only(Ask(SetStatus(r, c.labels, "awaiting_approval"), "ask")), c, r)
  BY <1>0, AskSound
<1>3. Sound(SettleOrMerge(r), c, r)
  BY <1>0, SettleSound
<1> QED BY <1>1, <1>2, <1>3 DEF AfterImplement

\* What follows a review is sound.
LEMMA AfterReviewSound ==
  ASSUME NEW r \in LooseEntry, NEW c, NEW report \in Reports("review")
  PROVE  Sound(AfterReview(c, r, report), c, r)
<1> DEFINE seen == [r EXCEPT !.reviews = @ + 1]
<1>0. "ask" \in GateKinds /\ "combined" \in GateKinds /\ "blocked" \in Statuses \ {"done"}
      /\ "todo" \in Statuses \ {"done"} /\ "awaiting_approval" \in Statuses \ {"done"}
  BY DEF GateKinds, Statuses
<1>1. Follows(seen, r)
  BY FollowsReviews
<1>2. AfterReview(c, r, report) =
        CASE report = "approve" -> SettleOrMerge(seen)
          [] report = "unsure"  -> Only(Ask(SetStatus(seen, c.labels, "awaiting_approval"),
                                            IF config.gated THEN "combined" ELSE "ask"))
          [] report = "changes" -> ToStatus(c, seen, IF ReviewReworks(c, report)
                                                     THEN "todo" ELSE "blocked")
  BY DEF AfterReview
<1> HIDE DEF seen
<1>3. Sound(SettleOrMerge(seen), c, r)
  BY <1>1, SettleSound
<1>4. Sound(Only(Ask(SetStatus(seen, c.labels, "awaiting_approval"),
                     IF config.gated THEN "combined" ELSE "ask")), c, r)
  BY <1>0, <1>1, AskSound
<1>5. Sound(ToStatus(c, seen, IF ReviewReworks(c, report) THEN "todo" ELSE "blocked"), c, r)
  BY <1>0, <1>1, ToStatusSound
<1>6. report \in {"approve", "unsure", "changes"}
  BY DEF Reports
<1> QED BY <1>2, <1>3, <1>4, <1>5, <1>6

----------------------------------------------------------------------------
(* What a step does to the remote entries *)

\* The job of the work lane names its issue and its kind while there is one, and a result
\* answers the run it is of.
Stages == {"prepare", "merge", "done", "close"}
JobInv ==
  /\ work.pc \in {"agent"} \cup Stages => work.issue \in Issues
  /\ work.pc \in {"agent", "next"} \cup Stages => work.job \in Issues
  /\ work.pc = "agent" => work.kind \in {"implement", "review"} /\ work.issue = work.job
  /\ work.pc \in {"next"} \cup Stages => work.kind \in {"ready", "land", "merge"}
  /\ \A res \in results : res.report \in Reports(res.intent)

\* The entry e of issue i comes after r: a signature on it is an older one or a person
\* has just signed, and nothing but SetDone makes it read done.
Kept(e, r, i) ==
  /\ Backed(e) => Backed(r) \/ i \in signed'
  /\ "done" \in e.labels => "done" \in r.labels \/ (SetDone /\ i = work.issue)

RemoteKept ==
  /\ remote' \in [Issues -> Entry]
  /\ \A i \in Issues : Kept(remote'[i], remote[i], i)

\* A step that leaves the tracker alone keeps it.
LEMMA KeptSelf == UNCHANGED remote /\ TypeOK => RemoteKept
  BY DEF RemoteKept, Kept, TypeOK

\* So does one that writes what a handler may make of an entry.
LEMMA KeptFollows ==
  ASSUME NEW e, NEW r, Follows(e, r), NEW i
  PROVE  Kept(e, r, i)
<1>1. Backed(e) => Backed(r)
  <2>1. \A g \in GateKinds : e.gate[g].by \cap {"approve", "merge"} # {}
          => r.gate[g].by \cap {"approve", "merge"} # {}
    BY DEF Follows
  <2> QED BY <2>1 DEF Follows, Backed
<1>2. "done" \in e.labels => "done" \in r.labels
  BY DEF Follows
<1> QED BY <1>1, <1>2 DEF Kept

\* One entry is written.
LEMMA KeptOne ==
  ASSUME TypeOK, NEW i \in Issues, NEW e \in Entry, Kept(e, remote[i], i),
         remote' = [remote EXCEPT ![i] = e]
  PROVE  RemoteKept
<1>1. remote \in [Issues -> Entry]
  BY DEF TypeOK
<1>2. \A j \in Issues : remote'[j] = IF j = i THEN e ELSE remote[j]
  BY <1>1
<1>3. \A j \in Issues : Kept(remote[j], remote[j], j)
  BY DEF Kept
<1>4. remote' \in [Issues -> Entry]
  BY <1>1
<1>5. \A j \in Issues : Kept(remote'[j], remote[j], j)
  BY <1>2, <1>3
<1> QED BY <1>4, <1>5 DEF RemoteKept

\* A status is set on an entry.
LEMMA SetStatusTypes ==
  ASSUME NEW r \in Entry, NEW known, NEW s \in Statuses
  PROVE  /\ SetStatus(r, known, s) \in Entry
         /\ SetStatus(r, known, s).gate = r.gate /\ SetStatus(r, known, s).said = r.said
         /\ SetStatus(r, known, s).labels \subseteq r.labels \cup {s}
         /\ LastApr(SetStatus(r, known, s)) = LastApr(r)
<1> DEFINE l == (r.labels \ known) \cup {s}
<1>1. l \subseteq Statuses /\ l \subseteq r.labels \cup {s}
  BY DEF Entry
<1>2. SetStatus(r, known, s) = [r EXCEPT !.labels = l]
  BY DEF SetStatus
<1> HIDE DEF l
<1> DEFINE f == [r EXCEPT !.labels = l]
<1>3. f \in Entry /\ f.gate = r.gate /\ f.said = r.said /\ f.labels = l
  BY <1>1 DEF Entry
<1> HIDE DEF f
<1>4. LastApr(f) = LastApr(r)
  BY <1>3 DEF LastApr
<1> QED BY <1>1, <1>2, <1>3, <1>4 DEF f

\* What a handler writes, when there is room for one more request.
LEMMA AskTypes ==
  ASSUME NEW r \in Entry, LastApr(r) < MaxApr, NEW g \in GateKinds
  PROVE  Ask(r, g) \in Entry
<1>1. r \in LooseEntry /\ LastApr(r) \in Nat
  BY EntryIsLoose, LastAprIsMax DEF LooseEntry
<1>2. Ask(r, g) \in LooseEntry /\ LastApr(Ask(r, g)) <= LastApr(r) + 1
  BY <1>1, FollowsSelf, FollowsAsk DEF Follows
<1>3. LastApr(Ask(r, g)) \in Nat
  BY <1>2, LastAprIsMax DEF LooseEntry
<1>4. LastApr(Ask(r, g)) <= MaxApr
  BY <1>1, <1>2, <1>3, LifecycleAssumption
<1> QED BY <1>2, <1>4, BoundedIsEntry

\* A decision is applied.
LEMMA ApplyKept ==
  ASSUME TypeOK, NEW i \in Issues, NEW d, Sound(d, mirror[i], remote[i]), Apply(i, d)
  PROVE  /\ RemoteKept
         /\ gateJob' \in [Issues -> {"no", "ready", "land", "merge"}]
         /\ \A j \in Issues : config.gated /\ gateJob'[j] \in {"land", "merge"}
                                => gateJob[j] \in {"land", "merge"} \/ Backed(mirror[j])
<1>1. d.entry \in Entry /\ Kept(d.entry, remote[i], i)
  BY BoundedIsEntry, KeptFollows DEF Sound, Apply, Follows
<1>2. RemoteKept
  BY <1>1, KeptOne DEF Apply
<1>3. gateJob \in [Issues -> {"no", "ready", "land", "merge"}]
  BY DEF TypeOK
<1>4. gateJob' = gateJob \/ gateJob' = [gateJob EXCEPT ![i] = d.git]
  BY DEF Apply
<1>5. gateJob' \in [Issues -> {"no", "ready", "land", "merge"}]
  BY <1>3, <1>4 DEF Sound
<1>6. \A j \in Issues : config.gated /\ gateJob'[j] \in {"land", "merge"}
                          => gateJob[j] \in {"land", "merge"} \/ Backed(mirror[j])
  BY <1>3, <1>4 DEF Sound
<1> QED BY <1>2, <1>5, <1>6

\* What becomes of a result: nothing, or a sound decision.
LEMMA DigestApplies ==
  ASSUME TypeOK, JobInv, NEW res \in results, DigestResult(res)
  PROVE  \/ UNCHANGED <<remote, gateJob, reworks>>
         \/ \E i \in Issues : \E d : /\ Sound(d, mirror[i], remote[i]) /\ Apply(i, d)
                                     /\ reworks' \in [Issues -> Nat]
<1>1. res.issue \in Issues /\ res.intent \in {"implement", "review"}
  BY DEF TypeOK
<1> DEFINE i == res.issue
           c == mirror[i]
           r == remote[i]
           d == IF res.intent = "implement" THEN AfterImplement(c, r, res.report)
                ELSE AfterReview(c, r, res.report)
<1>2. r \in LooseEntry
  BY <1>1, EntryIsLoose DEF TypeOK
<1>3. Sound(d, c, r)
  <2>1. res.intent # "implement" => res.report \in Reports("review")
    BY <1>1 DEF JobInv
  <2> QED BY <1>1, <1>2, <2>1, AfterImplementSound, AfterReviewSound
<1>4. \/ UNCHANGED <<remote, gateJob, reworks>>
      \/ Apply(i, d) /\ reworks' \in {reworks, [reworks EXCEPT ![i] = reworks[i] + 1]}
  BY DEF DigestResult
<1> HIDE DEF d
<1>5. {reworks, [reworks EXCEPT ![i] = reworks[i] + 1]} \subseteq [Issues -> Nat]
  BY <1>1 DEF TypeOK
<1> QED BY <1>1, <1>3, <1>4, <1>5

\* A person reacts on a gate: a signature, unless it is a rejection.
LEMMA ReactsKept ==
  ASSUME TypeOK, NEW i \in Issues, NEW g \in GateKinds, NEW s \in Signals, Reacts(i, g, s)
  PROVE  RemoteKept
<1> DEFINE r == remote[i]
           y == r.gate[g].by \cup {s}
           x == [r.gate[g] EXCEPT !.by = y]
           G == [r.gate EXCEPT ![g] = x]
           e == [r EXCEPT !.gate = G]
<1>1. r \in Entry
  BY DEF TypeOK
<1>2. remote' = [remote EXCEPT ![i] = e]
  BY <1>1 DEF Reacts, Entry, TypeOK
<1>3. signed' = IF s = "reject" THEN signed ELSE signed \cup {i}
  BY DEF Reacts
<1>4. r.gate \in [GateKinds -> Gate]
  BY <1>1 DEF Entry
<1>5. x \in Gate /\ x.by = y
  BY <1>4 DEF Gate
<1> HIDE DEF x
<1>6. G \in [GateKinds -> Gate] /\ \A h \in GateKinds : G[h] = IF h = g THEN x ELSE r.gate[h]
  BY <1>4, <1>5
<1> HIDE DEF G
<1>7. e \in Entry /\ e.gate = G /\ e.said = r.said /\ e.labels = r.labels
  BY <1>1, <1>6 DEF Entry
<1> HIDE DEF e
<1>8. Backed(e) => Backed(r) \/ i \in signed'
  <2>1. CASE s = "reject"
    <3>1. \A h \in GateKinds : e.gate[h].by \cap {"approve", "merge"} # {}
            => r.gate[h].by \cap {"approve", "merge"} # {}
      BY <1>5, <1>6, <1>7, <2>1
    <3> QED BY <1>7, <3>1 DEF Backed
  <2>2. CASE s # "reject"
    BY <1>3, <2>2
  <2> QED BY <2>1, <2>2
<1>9. Kept(e, r, i)
  BY <1>7, <1>8 DEF Kept
<1> QED BY <1>2, <1>7, <1>9, KeptOne

\* A person comments: a signature, if it is an approval or a merge command.
LEMMA SaysKept ==
  ASSUME TypeOK, NEW i \in Issues, NEW w \in Words, Says(i, w)
  PROVE  RemoteKept
<1> DEFINE r == remote[i]
           t == r.said \cup ({w} \cap Signals)
           n == r.spoken + 1
           e == [r EXCEPT !.said = t, !.last = w, !.spoken = n]
<1>1. r \in Entry
  BY DEF TypeOK
<1>2. remote' = [remote EXCEPT ![i] = e]
  BY <1>1 DEF Says, Entry, TypeOK
<1>3. t \subseteq Signals /\ n \in Nat
  BY <1>1 DEF Entry
<1>4. Backed(r) \/ i \in signed' \/ t \cap {"approve", "merge"} = {}
  <2>1. w \in {"approve", "merge"} => i \in signed'
    BY DEF Says
  <2> QED BY <2>1 DEF Backed
<1> HIDE DEF t, n
<1>5. e \in Entry
  BY <1>1, <1>3 DEF Entry
<1>6. e.gate = r.gate /\ e.said = t /\ e.labels = r.labels
  BY <1>1 DEF Entry
<1> HIDE DEF e
<1>7. Kept(e, r, i)
  BY <1>4, <1>6 DEF Kept, Backed
<1> QED BY <1>2, <1>5, <1>7, KeptOne

\* A person who cancels signs nothing and calls nothing done.
LEMMA CancelsKept ==
  ASSUME TypeOK, NEW i \in Issues, Cancels(i)
  PROVE  RemoteKept
<1> DEFINE r == remote[i]
           relabelled == [r EXCEPT !.labels = {"wont_do"}]
           closed == [r EXCEPT !.open = FALSE]
<1>1. r \in Entry
  BY DEF TypeOK
<1>2. remote' = [remote EXCEPT ![i] = relabelled] \/ remote' = [remote EXCEPT ![i] = closed]
  BY <1>1 DEF Cancels, Entry, TypeOK
<1>3. relabelled \in Entry /\ relabelled.gate = r.gate /\ relabelled.said = r.said
      /\ relabelled.labels = {"wont_do"}
  BY <1>1 DEF Entry, Statuses
<1>4. closed \in Entry /\ closed.gate = r.gate /\ closed.said = r.said /\ closed.labels = r.labels
  BY <1>1 DEF Entry
<1> HIDE DEF relabelled, closed
<1>5. Kept(relabelled, r, i) /\ Kept(closed, r, i)
  BY <1>3, <1>4 DEF Kept, Backed
<1> QED BY <1>2, <1>3, <1>4, <1>5, KeptOne

\* A status is set, and perhaps a gate opened, by whoever handles the issue.
LEMMA WritesKept ==
  ASSUME TypeOK, NEW i \in Issues, NEW known, NEW s \in Statuses \ {"done"}, NEW g \in GateKinds
  PROVE  /\ remote' = [remote EXCEPT ![i] = SetStatus(remote[i], known, s)] => RemoteKept
         /\ LastApr(remote[i]) < MaxApr
            => /\ remote' = [remote EXCEPT ![i] = Ask(SetStatus(remote[i], known, s), g)] => RemoteKept
               /\ remote' = [remote EXCEPT ![i] = Ask(remote[i], g)] => RemoteKept
<1> DEFINE r == remote[i]
           e == SetStatus(r, known, s)
<1>1. r \in Entry /\ r \in LooseEntry
  BY EntryIsLoose DEF TypeOK
<1>2. e \in Entry /\ LastApr(e) = LastApr(r) /\ Follows(e, r) /\ Follows(r, r)
  BY <1>1, SetStatusTypes, FollowsSetStatus, FollowsSelf
<1> HIDE DEF e
<1>3. remote' = [remote EXCEPT ![i] = e] => RemoteKept
  BY <1>2, KeptFollows, KeptOne
<1>4. ASSUME LastApr(r) < MaxApr
      PROVE  /\ remote' = [remote EXCEPT ![i] = Ask(e, g)] => RemoteKept
             /\ remote' = [remote EXCEPT ![i] = Ask(r, g)] => RemoteKept
  <2>1. Ask(e, g) \in Entry /\ Follows(Ask(e, g), r)
    BY <1>1, <1>2, <1>4, AskTypes, FollowsAsk
  <2>2. Ask(r, g) \in Entry /\ Follows(Ask(r, g), r)
    BY <1>1, <1>2, <1>4, AskTypes, FollowsAsk
  <2> QED BY <2>1, <2>2, KeptFollows, KeptOne
<1> QED BY <1>3, <1>4 DEF e

\* Every step keeps the tracker.
LEMMA RemoteStep ==
  ASSUME TypeOK, JobInv, [Next]_vars
  PROVE  RemoteKept
<1>1. ASSUME NEW i \in Issues, NEW g \in GateKinds, NEW s \in Signals, Reacts(i, g, s) PROVE RemoteKept
  BY <1>1, ReactsKept
<1>2. ASSUME NEW i \in Issues, NEW w \in Words, Says(i, w) PROVE RemoteKept
  BY <1>2, SaysKept
<1>3. ASSUME NEW i \in Issues, Cancels(i) PROVE RemoteKept
  BY <1>3, CancelsKept
<1>4. ASSUME NEW res \in results, DigestResult(res) PROVE RemoteKept
  BY <1>4, DigestApplies, ApplyKept, KeptSelf
<1>5. ASSUME NEW i \in Issues, NEW k \in EventKinds, ResolveGate(i, k) PROVE RemoteKept
  <2>1. remote[i] \in LooseEntry
    BY EntryIsLoose DEF TypeOK
  <2>2. PICK judged \in Parked :
          UNCHANGED remote \/ Apply(i, Resolution(judged, mirror[i], remote[i], k))
    BY <1>5 DEF ResolveGate
  <2> QED BY <2>1, <2>2, ResolutionSound, ApplyKept, KeptSelf
<1>6. ASSUME NEW i \in Issues, NEW k \in EventKinds, ParkForApproval(i, k) PROVE RemoteKept
  <2>1. /\ LastApr(remote[i]) < MaxApr
        /\ remote' = [remote EXCEPT ![i] =
             Ask(SetStatus(remote[i], mirror[i].labels, "awaiting_approval"), "ask")]
    BY <1>6 DEF ParkForApproval
  <2>2. "awaiting_approval" \in Statuses \ {"done"} /\ "ask" \in GateKinds
    BY DEF Statuses, GateKinds
  <2> QED BY <2>1, <2>2, WritesKept
<1>7. ASSUME NEW i \in Issues, NEW k \in EventKinds, BlockOnCancelled(i, k) PROVE RemoteKept
  <2>1. remote' = [remote EXCEPT ![i] = SetStatus(remote[i], mirror[i].labels, "blocked")]
    BY <1>7 DEF BlockOnCancelled
  <2>2. "blocked" \in Statuses \ {"done"} /\ "ask" \in GateKinds
    BY DEF Statuses, GateKinds
  <2> QED BY <2>1, <2>2, WritesKept
<1>8. CASE Prepared
  <2>1. work.issue \in Issues /\ "awaiting_approval" \in Statuses \ {"done"} /\ "pure" \in GateKinds
    BY <1>8 DEF Prepared, JobInv, Stages, Statuses, GateKinds
  <2> DEFINE i == work.issue
  <2>2. \/ UNCHANGED remote
        \/ /\ LastApr(remote[i]) < MaxApr
           /\ \/ remote' = [remote EXCEPT ![i] = Ask(remote[i], "pure")]
              \/ remote' = [remote EXCEPT ![i] =
                   Ask(SetStatus(remote[i], work.snap, "awaiting_approval"), "pure")]
    BY <1>8 DEF Prepared
  <2> HIDE DEF i
  <2> QED BY <2>1, <2>2, WritesKept, KeptSelf DEF i
<1>9. CASE Unmergeable
  <2>1. work.issue \in Issues /\ "blocked" \in Statuses \ {"done"} /\ "pure" \in GateKinds
    BY <1>9 DEF Unmergeable, JobInv, Stages, Statuses, GateKinds
  <2>2. remote' = [remote EXCEPT ![work.issue] = SetStatus(remote[work.issue], work.snap, "blocked")]
    BY <1>9 DEF Unmergeable
  <2> QED BY <2>1, <2>2, WritesKept
<1>10. CASE SetDone
  <2> DEFINE i == work.issue
             e == SetStatus(remote[i], work.snap, "done")
  <2>1. i \in Issues /\ "done" \in Statuses
    BY <1>10 DEF SetDone, JobInv, Stages, Statuses
  <2>2. remote' = [remote EXCEPT ![i] = e]
    BY <1>10 DEF SetDone
  <2>3. e \in Entry /\ e.gate = remote[i].gate /\ e.said = remote[i].said
    BY <2>1, SetStatusTypes DEF TypeOK
  <2>4. Kept(e, remote[i], i)
    BY <1>10, <2>3 DEF Kept, Backed
  <2> HIDE DEF e
  <2> QED BY <2>1, <2>2, <2>3, <2>4, KeptOne
<1>11. CASE Close
  <2> DEFINE i == work.issue
             e == [remote[i] EXCEPT !.open = FALSE]
  <2>1. i \in Issues
    BY <1>11 DEF Close, JobInv, Stages
  <2>2. remote' = [remote EXCEPT ![i] = e]
    BY <1>11, <2>1 DEF Close, TypeOK, Entry
  <2>3. remote[i] \in Entry
    BY <2>1 DEF TypeOK
  <2>4. /\ e \in Entry /\ e.gate = remote[i].gate /\ e.said = remote[i].said
        /\ e.labels = remote[i].labels
    BY <2>3 DEF Entry
  <2>5. Kept(e, remote[i], i)
    BY <2>4 DEF Kept, Backed
  <2> HIDE DEF e
  <2> QED BY <2>1, <2>2, <2>4, <2>5, KeptOne
<1>12. ASSUME NEW i \in Issues, NEW k \in EventKinds,
              \/ Ignore(i, k) \/ HoldOnDeps(i, k) \/ PollPasses(i, k)
              \/ \E intent \in {"implement", "review"} : ScheduleRun(i, k, intent)
       PROVE  RemoteKept
  BY <1>12, KeptSelf DEF Ignore, HoldOnDeps, PollPasses, ScheduleRun
<1>13. ASSUME NEW i \in Issues, ClaimRun(i) \/ RunEnds(i) \/ RunFails(i) \/ ClaimGate(i)
       PROVE  RemoteKept
  BY <1>13, KeptSelf DEF ClaimRun, RunEnds, RunFails, ClaimGate
<1>14. CASE Sync \/ WorkGoes \/ NothingToClaim \/ Merge \/ NextSibling \/ Crash \/ UNCHANGED vars
  BY <1>14, KeptSelf DEF Sync, WorkGoes, NothingToClaim, Merge, NextSibling, Crash, vars
<1> QED BY <1>1, <1>2, <1>3, <1>4, <1>5, <1>6, <1>7, <1>8, <1>9, <1>10, <1>11, <1>12, <1>13, <1>14
       DEF Next, People, Control, Work

----------------------------------------------------------------------------
(* Types *)

\* The types hold at the start.
LEMMA TypeInit == Init => TypeOK /\ JobInv
<1> SUFFICES ASSUME Init PROVE TypeOK /\ JobInv
  OBVIOUS
<1>1. NewEntry \in Entry
  BY LifecycleAssumption DEF NewEntry, Entry, Gate, Statuses, GateKinds
<1>2. Idle \in Job /\ Idle.pc = "idle"
  BY DEF Idle, Job
<1>3. budget \in [{"human", "faults"} -> Nat]
  BY LifecycleAssumption DEF Init
<1> QED BY <1>1, <1>2, <1>3 DEF Init, TypeOK, JobInv, Stages

\* What the lanes say of the job of the work lane.
LaneTypes ==
  /\ runJob \in [Issues -> {"no", "implement", "review"}]
  /\ gateJob \in [Issues -> {"no", "ready", "land", "merge"}]
  /\ work \in Job
  /\ JobInv

\* The work lane at rest is in a state of it.
LEMMA IdleIsJob == Idle \in Job /\ Idle.pc = "idle"
  BY DEF Idle, Job

\* A job put back is pending as it was.
LEMMA RequeuedTypes ==
  ASSUME TypeOK, JobInv
  PROVE  /\ work.pc = "agent" => Requeued(runJob) \in [Issues -> {"no", "implement", "review"}]
         /\ work.pc \in {"next"} \cup Stages
              => Requeued(gateJob) \in [Issues -> {"no", "ready", "land", "merge"}]
  BY DEF TypeOK, JobInv, Requeued, Stages

\* Every step leaves the lanes in states of theirs.
LEMMA LaneStep ==
  ASSUME TypeOK, JobInv, [Next]_vars
  PROVE  LaneTypes'
<1>0. LaneTypes
  BY DEF LaneTypes, TypeOK
<1> USE DEF LaneTypes
<1>1. ASSUME NEW i \in Issues, NEW g \in GateKinds, NEW s \in Signals, Reacts(i, g, s) PROVE LaneTypes'
  BY <1>0, <1>1 DEF Reacts, control, jobs, JobInv
<1>2. ASSUME NEW i \in Issues, NEW w \in Words, Says(i, w) PROVE LaneTypes'
  BY <1>0, <1>2 DEF Says, control, jobs, JobInv
<1>3. ASSUME NEW i \in Issues, Cancels(i) PROVE LaneTypes'
  BY <1>0, <1>3 DEF Cancels, control, jobs, JobInv
<1>4. ASSUME NEW res \in results, DigestResult(res) PROVE LaneTypes'
  <2>1. gateJob' \in [Issues -> {"no", "ready", "land", "merge"}]
    BY <1>0, <1>4, DigestApplies, ApplyKept
  <2>2. runJob' = runJob /\ work' = work /\ results' \subseteq results
    BY <1>4 DEF DigestResult
  <2> QED BY <1>0, <2>1, <2>2 DEF JobInv
<1>5. ASSUME NEW i \in Issues, NEW k \in EventKinds, ResolveGate(i, k) PROVE LaneTypes'
  <2>1. remote[i] \in LooseEntry
    BY EntryIsLoose DEF TypeOK
  <2>2. PICK judged \in Parked :
          UNCHANGED gateJob \/ Apply(i, Resolution(judged, mirror[i], remote[i], k))
    BY <1>5 DEF ResolveGate
  <2>3. gateJob' \in [Issues -> {"no", "ready", "land", "merge"}]
    BY <1>0, <2>1, <2>2, ResolutionSound, ApplyKept
  <2>4. runJob' = runJob /\ work' = work /\ results' = results
    BY <1>5 DEF ResolveGate
  <2> QED BY <1>0, <2>3, <2>4 DEF JobInv
<1>6. ASSUME NEW i \in Issues, NEW k \in EventKinds,
             ParkForApproval(i, k) \/ BlockOnCancelled(i, k) \/ Ignore(i, k) \/ HoldOnDeps(i, k)
               \/ PollPasses(i, k)
      PROVE  LaneTypes'
  BY <1>0, <1>6 DEF ParkForApproval, BlockOnCancelled, Ignore, HoldOnDeps, PollPasses, jobs, JobInv
<1>7. ASSUME NEW i \in Issues, NEW k \in EventKinds, NEW intent \in {"implement", "review"},
             ScheduleRun(i, k, intent)
      PROVE  LaneTypes'
  BY <1>0, <1>7 DEF ScheduleRun, JobInv
<1>8. CASE Sync
  <2> DEFINE x == work.cut \/ (work.pc = "agent" /\
                    work.issue \in {i \in Issues : mirror[i].open /\ ~remote[i].open})
  <2>1. work' = [work EXCEPT !.cut = x] /\ x \in BOOLEAN
    BY <1>0, <1>8 DEF Sync, Job
  <2> HIDE DEF x
  <2>2. work' \in Job /\ work'.pc = work.pc /\ work'.issue = work.issue /\ work'.job = work.job
        /\ work'.kind = work.kind
    BY <1>0, <2>1 DEF Job
  <2>3. /\ runJob' \in [Issues -> {"no", "implement", "review"}]
        /\ gateJob' \in [Issues -> {"no", "ready", "land", "merge"}]
        /\ results' \subseteq results
    BY <1>0, <1>8 DEF Sync
  <2> QED BY <1>0, <2>2, <2>3 DEF JobInv
<1>9. CASE WorkGoes
  <2>1. work' \in Job /\ work'.pc = "go"
    BY <1>9 DEF WorkGoes, Idle, Job
  <2> QED BY <1>0, <1>9, <2>1 DEF WorkGoes, control, jobs, JobInv, Stages
<1>10. CASE NothingToClaim
  BY <1>0, <1>10, IdleIsJob DEF NothingToClaim, control, jobs, JobInv, Stages
<1>11. ASSUME NEW i \in Issues, ClaimRun(i) PROVE LaneTypes'
  <2>1. runJob' \in [Issues -> {"no", "implement", "review"}] /\ gateJob' = gateJob
        /\ results' = results /\ runJob[i] \in {"implement", "review"}
    BY <1>0, <1>11 DEF ClaimRun, control
  <2> DEFINE w == [Idle EXCEPT !.pc = "agent", !.issue = i, !.job = i, !.kind = runJob[i]]
  <2>2. work' = Idle \/ work' = w
    BY <1>11 DEF ClaimRun
  <2>3. w \in Job /\ w.pc = "agent" /\ w.issue = i /\ w.job = i /\ w.kind \in {"implement", "review"}
    BY <2>1 DEF Idle, Job
  <2> HIDE DEF w
  <2> QED BY <1>0, <2>1, <2>2, <2>3, IdleIsJob DEF JobInv, Stages
<1>12. ASSUME NEW i \in Issues, RunEnds(i) PROVE LaneTypes'
  <2>1. work' = Idle /\ runJob' = runJob /\ gateJob' = gateJob
    BY <1>12 DEF RunEnds, jobs
  <2>2. PICK report \in Reports(work.kind) :
          results' = results \cup {[issue |-> i, intent |-> work.kind, report |-> report]}
    BY <1>12 DEF RunEnds
  <2>3. \A res \in results' : res.report \in Reports(res.intent)
    BY <2>2 DEF JobInv
  <2> QED BY <1>0, <2>1, <2>3, IdleIsJob DEF JobInv, Stages
<1>13. ASSUME NEW i \in Issues, RunFails(i) PROVE LaneTypes'
  <2>1. runJob' \in [Issues -> {"no", "implement", "review"}]
    BY <1>13, RequeuedTypes DEF RunFails
  <2> QED BY <1>0, <1>13, <2>1, IdleIsJob DEF RunFails, control, JobInv, Stages
<1>14. ASSUME NEW i \in Issues, ClaimGate(i) PROVE LaneTypes'
  <2>1. gateJob' \in [Issues -> {"no", "ready", "land", "merge"}] /\ runJob' = runJob
        /\ results' = results /\ gateJob[i] \in {"ready", "land", "merge"}
        /\ mirror[i].labels \in SUBSET Statuses
    BY <1>0, <1>14 DEF ClaimGate, control, TypeOK, Entry
  <2> DEFINE w == [Idle EXCEPT !.pc = IF gateJob[i] = "merge" THEN "merge" ELSE "prepare",
                          !.issue = i, !.what = gateJob[i], !.snap = mirror[i].labels,
                          !.job = i, !.kind = gateJob[i]]
  <2>2. work' = w
    BY <1>14 DEF ClaimGate
  <2>3. w \in Job /\ w.pc \in {"merge", "prepare"} /\ w.issue = i /\ w.job = i
        /\ w.kind \in {"ready", "land", "merge"}
    BY <2>1 DEF Idle, Job
  <2> HIDE DEF w
  <2> QED BY <1>0, <2>1, <2>2, <2>3 DEF JobInv, Stages
<1>15. CASE Prepared \/ Unmergeable \/ Merge \/ SetDone
  <2>1. work.pc \in Stages /\ \E pc \in Stages \cup {"next"} : work' = [work EXCEPT !.pc = pc]
    BY <1>15 DEF Prepared, Unmergeable, Merge, SetDone, Step, Stages
  <2>2. work' \in Job /\ work'.pc \in Stages \cup {"next"} /\ work'.issue = work.issue
        /\ work'.job = work.job /\ work'.kind = work.kind
    BY <1>0, <2>1 DEF Job, Stages
  <2>3. runJob' = runJob /\ gateJob' = gateJob /\ results' = results
    BY <1>15 DEF Prepared, Unmergeable, Merge, SetDone, control, jobs
  <2> QED BY <1>0, <2>1, <2>2, <2>3 DEF JobInv, Stages
<1>16. CASE Close
  <2> DEFINE R == {j \in Issues \ {work.issue} :
                     /\ remote[j].open /\ "awaiting_approval" \in remote[j].labels
                     /\ HasGate(mirror[j], "pure")}
  <2>1. work.pc = "close" /\ work' = [work EXCEPT !.pc = "next", !.rest = R] /\ R \subseteq Issues
    BY <1>16 DEF Close
  <2> HIDE DEF R
  <2>2. work' \in Job /\ work'.pc = "next" /\ work'.job = work.job /\ work'.kind = work.kind
    BY <1>0, <2>1 DEF Job
  <2>3. runJob' = runJob /\ gateJob' = gateJob /\ results' = results
    BY <1>16 DEF Close, control, jobs
  <2> QED BY <1>0, <2>1, <2>2, <2>3 DEF JobInv, Stages
<1>17. CASE NextSibling
  <2>1. work.pc = "next" /\ runJob' = runJob /\ gateJob' = gateJob /\ results' = results
    BY <1>17 DEF NextSibling, control, jobs
  <2>2. CASE work' = Idle
    BY <1>0, <2>1, <2>2, IdleIsJob DEF JobInv, Stages
  <2>3. ASSUME NEW j \in work.rest,
               work' = [work EXCEPT !.pc = "prepare", !.issue = j, !.what = "ready",
                                    !.snap = mirror[j].labels, !.rest = work.rest \ {j}]
        PROVE  LaneTypes'
    <3>1. work.rest \subseteq Issues /\ j \in Issues
      BY <1>0 DEF Job
    <3>2. mirror[j].labels \in SUBSET Statuses /\ work.rest \ {j} \in SUBSET Issues
      BY <3>1 DEF TypeOK, Entry
    <3>3. work' \in Job /\ work'.pc = "prepare" /\ work'.issue = j /\ work'.job = work.job
          /\ work'.kind = work.kind
      BY <1>0, <2>3, <3>1, <3>2 DEF Job
    <3> QED BY <1>0, <2>1, <3>1, <3>3 DEF JobInv, Stages
  <2> QED BY <1>17, <2>2, <2>3 DEF NextSibling
<1>18. CASE Crash
  <2>1. work' = Idle /\ results' = results
    BY <1>18 DEF Crash, control
  <2>2. CASE work.pc \in {"go", "agent"}
    <3>1. gateJob' = gateJob /\ runJob' \in {runJob, Requeued(runJob)}
          /\ (work.pc = "go" => runJob' = runJob)
      BY <1>18, <2>2 DEF Crash, jobs
    <3> QED BY <1>0, <2>1, <2>2, <3>1, IdleIsJob, RequeuedTypes DEF JobInv, Stages
  <2>3. CASE work.pc \notin {"go", "agent"}
    <3>1. work.pc \in {"next"} \cup Stages
      BY <1>0, <1>18, <2>3 DEF Crash, Job, Stages
    <3>2. runJob' = runJob /\ gateJob' = Requeued(gateJob)
      BY <1>18, <2>3 DEF Crash
    <3> QED BY <1>0, <2>1, <3>1, <3>2, IdleIsJob, RequeuedTypes DEF JobInv, Stages
  <2> QED BY <2>2, <2>3
<1>19. CASE UNCHANGED vars
  BY <1>0, <1>19 DEF vars, control, jobs, JobInv
<1> QED BY <1>1, <1>2, <1>3, <1>4, <1>5, <1>6, <1>7, <1>8, <1>9, <1>10, <1>11, <1>12, <1>13, <1>14,
          <1>15, <1>16, <1>17, <1>18, <1>19
       DEF Next, People, Control, Work

\* The rest of the state.
LEMMA EventTypes ==
  ASSUME TypeOK, [Next]_vars
  PROVE  pend' \in [Issues -> [EventKinds -> {"no", "ready", "later"}]]
<1>0. pend \in [Issues -> [EventKinds -> {"no", "ready", "later"}]]
  BY DEF TypeOK
<1>1. CASE Sync
  <2>1. pend' = [i \in Issues |-> [k \in EventKinds |->
                  IF k \in News(i) THEN "ready"
                  ELSE IF i \in {j \in Issues : mirror[j].open /\ ~remote[j].open} THEN "no"
                  ELSE pend[i][k]]]
    BY <1>1 DEF Sync
  <2> QED BY <1>0, <2>1
<1>2. ASSUME NEW i \in Issues, NEW k \in EventKinds, NEW v \in {"no", "ready", "later"},
             pend' = [pend EXCEPT ![i][k] = v]
      PROVE  pend' \in [Issues -> [EventKinds -> {"no", "ready", "later"}]]
  BY <1>0, <1>2
<1>3. ASSUME NEW i \in Issues, NEW k \in EventKinds,
             \/ ResolveGate(i, k) \/ Ignore(i, k) \/ ParkForApproval(i, k)
             \/ BlockOnCancelled(i, k) \/ HoldOnDeps(i, k) \/ PollPasses(i, k)
             \/ \E intent \in {"implement", "review"} : ScheduleRun(i, k, intent)
      PROVE  pend' \in [Issues -> [EventKinds -> {"no", "ready", "later"}]]
  <2>1. \E v \in {"no", "ready", "later"} : pend' = [pend EXCEPT ![i][k] = v]
    BY <1>3 DEF ResolveGate, Ignore, ParkForApproval, BlockOnCancelled, HoldOnDeps, PollPasses,
                ScheduleRun, Consume
  <2> QED BY <1>2, <2>1
<1>4. (\E i \in Issues : ClaimRun(i) \/ RunEnds(i) \/ RunFails(i) \/ ClaimGate(i))
        => UNCHANGED pend
  BY DEF ClaimRun, RunEnds, RunFails, ClaimGate, control
<1>5. \/ People \/ WorkGoes \/ NothingToClaim \/ Prepared \/ Unmergeable \/ Merge \/ SetDone
      \/ Close \/ NextSibling \/ Crash \/ UNCHANGED vars \/ (\E res \in results : DigestResult(res))
      => UNCHANGED pend
  BY DEF People, Reacts, Says, Cancels, WorkGoes, NothingToClaim, Prepared, Unmergeable, Merge,
         SetDone, Close, NextSibling, Crash, vars, control, DigestResult
<1> QED BY <1>0, <1>1, <1>3, <1>4, <1>5 DEF Next, Control, Work

\* Every result is one an agent can give.
LEMMA ResultTypes ==
  ASSUME TypeOK, JobInv, [Next]_vars
  PROVE  results' \subseteq [issue: Issues, intent: {"implement", "review"},
                             report: Reports("implement") \cup Reports("review")]
<1> DEFINE R == [issue: Issues, intent: {"implement", "review"},
                 report: Reports("implement") \cup Reports("review")]
<1>0. results \subseteq R
  BY DEF TypeOK
<1>1. Sync \/ (\E res \in results : DigestResult(res)) => results' \subseteq results
  BY DEF Sync, DigestResult
<1>2. ASSUME NEW i \in Issues, RunEnds(i) PROVE results' \subseteq R
  <2>1. work.kind \in {"implement", "review"}
    BY <1>2 DEF RunEnds, JobInv
  <2>2. PICK report \in Reports(work.kind) :
          results' = results \cup {[issue |-> i, intent |-> work.kind, report |-> report]}
    BY <1>2 DEF RunEnds
  <2>3. [issue |-> i, intent |-> work.kind, report |-> report] \in R
    BY <2>1
  <2> HIDE DEF R
  <2> QED BY <1>0, <2>2, <2>3
<1>3. (\E i \in Issues : ClaimRun(i) \/ RunFails(i) \/ ClaimGate(i)) => UNCHANGED results
  BY DEF ClaimRun, RunFails, ClaimGate, control
<1>4. \/ People \/ WorkGoes \/ NothingToClaim \/ Prepared \/ Unmergeable \/ Merge \/ SetDone
      \/ Close \/ NextSibling \/ Crash \/ UNCHANGED vars
      => UNCHANGED results
  BY DEF People, Reacts, Says, Cancels, WorkGoes, NothingToClaim, Prepared, Unmergeable, Merge,
         SetDone, Close, NextSibling, Crash, vars, control
<1>5. (\E i \in Issues, k \in EventKinds :
             \/ ResolveGate(i, k) \/ Ignore(i, k) \/ ParkForApproval(i, k)
             \/ BlockOnCancelled(i, k) \/ HoldOnDeps(i, k) \/ PollPasses(i, k)
             \/ \E intent \in {"implement", "review"} : ScheduleRun(i, k, intent))
      => UNCHANGED results
  BY DEF ResolveGate, Ignore, ParkForApproval, BlockOnCancelled, HoldOnDeps, PollPasses, ScheduleRun
<1> HIDE DEF R
<1>6. results' \subseteq R
  BY <1>0, <1>1, <1>2, <1>3, <1>4, <1>5 DEF Next, Control, Work
<1> QED BY <1>6 DEF R

\* The branches and the primary branch: an agent writes to its issue's branch, a merge
\* takes it over, and nothing else moves.
LEMMA GitMoves ==
  ASSUME TypeOK, JobInv, [Next]_vars
  PROVE  /\ branch' \in [Issues -> Nat] /\ merged' \in [Issues -> Nat]
         /\ work.pc \notin {"go", "agent"} => branch' = branch
         /\ ~Merge => merged' = merged
<1>0. branch \in [Issues -> Nat] /\ merged \in [Issues -> Nat]
  BY DEF TypeOK
<1>1. ASSUME NEW i \in Issues, ClaimRun(i)
      PROVE  work.pc = "go" /\ merged' = merged /\ branch' \in [Issues -> Nat]
  BY <1>0, <1>1 DEF ClaimRun
<1>2. ASSUME NEW i \in Issues, RunEnds(i) \/ RunFails(i)
      PROVE  work.pc = "agent" /\ merged' = merged /\ branch' \in [Issues -> Nat]
  BY <1>0, <1>2 DEF RunEnds, RunFails, Commits
<1>3. CASE Merge
  <2>1. work.issue \in Issues
    BY <1>3 DEF Merge, JobInv, Stages
  <2> QED BY <1>0, <1>3, <2>1 DEF Merge
<1>4. \/ People \/ WorkGoes \/ NothingToClaim \/ Prepared \/ Unmergeable \/ SetDone \/ Sync
      \/ Close \/ NextSibling \/ Crash \/ UNCHANGED vars \/ (\E res \in results : DigestResult(res))
      \/ (\E i \in Issues : ClaimGate(i))
      => branch' = branch /\ merged' = merged
  BY DEF People, Reacts, Says, Cancels, WorkGoes, NothingToClaim, Prepared, Unmergeable,
         SetDone, Close, NextSibling, Crash, vars, git, DigestResult, Sync, ClaimGate
<1>5. (\E i \in Issues, k \in EventKinds :
             \/ ResolveGate(i, k) \/ Ignore(i, k) \/ ParkForApproval(i, k)
             \/ BlockOnCancelled(i, k) \/ HoldOnDeps(i, k) \/ PollPasses(i, k)
             \/ \E intent \in {"implement", "review"} : ScheduleRun(i, k, intent))
      => branch' = branch /\ merged' = merged
  BY DEF ResolveGate, Ignore, ParkForApproval, BlockOnCancelled, HoldOnDeps, PollPasses,
         ScheduleRun, git
<1> QED BY <1>0, <1>1, <1>2, <1>3, <1>4, <1>5 DEF Next, Control, Work

\* The configuration stays, the mirror is what it was or what the tracker has, and what
\* was signed stays signed.
LEMMA OtherMoves ==
  ASSUME TypeOK, JobInv, [Next]_vars
  PROVE  /\ config' = config
         /\ mirror' = mirror \/ mirror' = remote
         /\ signed \subseteq signed' /\ signed' \subseteq Issues
         /\ reworks' \in [Issues -> Nat]
         /\ budget' \in [{"human", "faults"} -> Nat]
<1>0. signed \subseteq Issues /\ reworks \in [Issues -> Nat] /\ budget \in [{"human", "faults"} -> Nat]
  BY DEF TypeOK
<1>1. ASSUME NEW b \in {"human", "faults"}, Spend(b)
      PROVE  budget' \in [{"human", "faults"} -> Nat]
  BY <1>0, <1>1 DEF Spend
<1>2. CASE People
  BY <1>0, <1>1, <1>2 DEF People, Reacts, Says, Cancels, history
<1>3. ASSUME NEW res \in results, DigestResult(res)
      PROVE  /\ reworks' \in [Issues -> Nat]
             /\ UNCHANGED <<config, mirror, signed, budget>>
  BY <1>0, <1>3, DigestApplies DEF DigestResult
<1>4. CASE \/ Sync \/ WorkGoes \/ NothingToClaim \/ Prepared \/ Unmergeable \/ Merge \/ SetDone
           \/ Close \/ NextSibling \/ (\E i \in Issues : ClaimRun(i) \/ RunEnds(i) \/ ClaimGate(i))
           \/ UNCHANGED vars
  BY <1>0, <1>4 DEF Sync, WorkGoes, NothingToClaim, Prepared, Unmergeable, Merge, SetDone, Close,
                    NextSibling, ClaimRun, RunEnds, ClaimGate, vars, history
<1>5. CASE Crash \/ \E i \in Issues : RunFails(i)
  BY <1>0, <1>1, <1>5 DEF Crash, RunFails, history
<1>6. CASE \E i \in Issues, k \in EventKinds :
             \/ ResolveGate(i, k) \/ Ignore(i, k) \/ ParkForApproval(i, k)
             \/ BlockOnCancelled(i, k) \/ HoldOnDeps(i, k) \/ PollPasses(i, k)
             \/ \E intent \in {"implement", "review"} : ScheduleRun(i, k, intent)
  BY <1>0, <1>6 DEF ResolveGate, Ignore, ParkForApproval, BlockOnCancelled, HoldOnDeps, PollPasses,
                    ScheduleRun, history
<1> QED BY <1>0, <1>2, <1>3, <1>4, <1>5, <1>6 DEF Next, Control, Work

\* Every step keeps the types and the job.
LEMMA TypeStep == TypeOK /\ JobInv /\ [Next]_vars => (TypeOK /\ JobInv)'
<1> SUFFICES ASSUME TypeOK, JobInv, [Next]_vars PROVE (TypeOK /\ JobInv)'
  OBVIOUS
<1>1. remote' \in [Issues -> Entry]
  BY RemoteStep DEF RemoteKept
<1>2. LaneTypes'
  BY LaneStep
<1>3. config' \in Setups /\ mirror' \in [Issues -> Entry]
  BY OtherMoves DEF TypeOK
<1>4. results' \subseteq [issue: Issues, intent: {"implement", "review"},
                          report: Reports("implement") \cup Reports("review")]
  BY ResultTypes
<1> QED BY <1>1, <1>2, <1>3, <1>4, EventTypes, GitMoves, OtherMoves DEF TypeOK, LaneTypes

----------------------------------------------------------------------------
(* Where the jobs of the work lane come from *)

\* The job in hand stays, or it is claimed from what is pending, and a merge follows a
\* preparation that was asked to land.
LEMMA WorkMoves ==
  ASSUME TypeOK, JobInv, [Next]_vars
  PROVE  /\ work'.pc = "done" => work'.issue = work.issue /\ (Merge \/ work.pc = "done")
         /\ work'.pc = "merge" => \/ work'.issue = work.issue
                                     /\ (work.pc = "merge" \/ (work.pc = "prepare" /\ work.what = "land"))
                                  \/ gateJob[work'.issue] = "merge"
         /\ work'.pc = "prepare" /\ work'.what = "land"
              => \/ work'.issue = work.issue /\ work.pc = "prepare" /\ work.what = "land"
                 \/ gateJob[work'.issue] = "land"
         /\ work'.pc \in {"next"} \cup Stages
              => \/ work.pc \in {"next"} \cup Stages /\ work'.job = work.job /\ work'.kind = work.kind
                 \/ work'.kind = gateJob[work'.job]
         /\ work'.pc = "agent"
              => \/ work.pc = "agent" /\ work'.job = work.job /\ work'.kind = work.kind
                 \/ work.pc = "go" /\ work'.issue = work'.job /\ work'.kind = runJob[work'.job]
<1> DEFINE Goal ==
         /\ work'.pc = "done" => work'.issue = work.issue /\ (Merge \/ work.pc = "done")
         /\ work'.pc = "merge" => \/ work'.issue = work.issue
                                     /\ (work.pc = "merge" \/ (work.pc = "prepare" /\ work.what = "land"))
                                  \/ gateJob[work'.issue] = "merge"
         /\ work'.pc = "prepare" /\ work'.what = "land"
              => \/ work'.issue = work.issue /\ work.pc = "prepare" /\ work.what = "land"
                 \/ gateJob[work'.issue] = "land"
         /\ work'.pc \in {"next"} \cup Stages
              => \/ work.pc \in {"next"} \cup Stages /\ work'.job = work.job /\ work'.kind = work.kind
                 \/ work'.kind = gateJob[work'.job]
         /\ work'.pc = "agent"
              => \/ work.pc = "agent" /\ work'.job = work.job /\ work'.kind = work.kind
                 \/ work.pc = "go" /\ work'.issue = work'.job /\ work'.kind = runJob[work'.job]
<1> SUFFICES Goal
  OBVIOUS
<1>0. work \in Job
  BY DEF TypeOK
<1>1. ASSUME work'.pc = work.pc, work'.issue = work.issue, work'.what = work.what,
             work'.job = work.job, work'.kind = work.kind
      PROVE  Goal
  BY <1>1
<1>2. ASSUME work'.pc \in {"idle", "go"} PROVE Goal
  BY <1>2 DEF Stages
<1>3. CASE Sync
  <2>1. \E x : work' = [work EXCEPT !.cut = x]
    BY <1>3 DEF Sync
  <2>2. /\ work'.pc = work.pc /\ work'.issue = work.issue /\ work'.what = work.what
        /\ work'.job = work.job /\ work'.kind = work.kind
    BY <1>0, <2>1 DEF Job
  <2> QED BY <1>1, <2>2
<1>4. \/ People \/ (\E res \in results : DigestResult(res)) \/ UNCHANGED vars
      \/ (\E i \in Issues, k \in EventKinds :
             \/ ResolveGate(i, k) \/ Ignore(i, k) \/ ParkForApproval(i, k)
             \/ BlockOnCancelled(i, k) \/ HoldOnDeps(i, k) \/ PollPasses(i, k)
             \/ \E intent \in {"implement", "review"} : ScheduleRun(i, k, intent))
      => work' = work
  BY DEF People, Reacts, Says, Cancels, DigestResult, vars, ResolveGate, Ignore, ParkForApproval,
         BlockOnCancelled, HoldOnDeps, PollPasses, ScheduleRun
<1>5. CASE WorkGoes \/ NothingToClaim \/ Crash \/ \E i \in Issues : RunEnds(i) \/ RunFails(i)
  <2>1. work' \in {Idle, [Idle EXCEPT !.pc = "go"]}
    BY <1>5 DEF WorkGoes, NothingToClaim, Crash, RunEnds, RunFails
  <2>2. work'.pc \in {"idle", "go"}
    BY <2>1 DEF Idle
  <2> QED BY <1>2, <2>2
<1>6. ASSUME NEW i \in Issues, ClaimRun(i) PROVE Goal
  <2>1. work' = Idle \/ (work'.pc = "agent" /\ work'.issue = i /\ work'.job = i /\ work'.kind = runJob[i])
    BY <1>6 DEF ClaimRun, Idle
  <2>2. work.pc = "go"
    BY <1>6 DEF ClaimRun
  <2>3. CASE work' = Idle
    BY <1>2, <2>3, IdleIsJob
  <2>4. CASE work'.pc = "agent" /\ work'.issue = i /\ work'.job = i /\ work'.kind = runJob[i]
    BY <2>2, <2>4 DEF Stages
  <2> QED BY <2>1, <2>3, <2>4
<1>7. ASSUME NEW i \in Issues, ClaimGate(i) PROVE Goal
  <2>1. /\ work'.pc = IF gateJob[i] = "merge" THEN "merge" ELSE "prepare"
        /\ work'.issue = i /\ work'.what = gateJob[i] /\ work'.job = i /\ work'.kind = gateJob[i]
    BY <1>7 DEF ClaimGate, Idle
  <2> QED BY <2>1 DEF Stages
<1>8. CASE Prepared
  <2>1. work.pc = "prepare" /\ IF work.what = "land" THEN work' = [work EXCEPT !.pc = "merge"]
                               ELSE work' = [work EXCEPT !.pc = "next"]
    BY <1>8 DEF Prepared, Step
  <2>2. /\ work'.pc = IF work.what = "land" THEN "merge" ELSE "next"
        /\ work'.issue = work.issue /\ work'.job = work.job /\ work'.kind = work.kind
    BY <1>0, <2>1 DEF Job
  <2> QED BY <2>1, <2>2 DEF Stages
<1>9. CASE Merge
  <2>1. work.pc = "merge" /\ work' = [work EXCEPT !.pc = "done"]
    BY <1>9 DEF Merge, Step
  <2>2. work'.pc = "done" /\ work'.issue = work.issue /\ work'.job = work.job /\ work'.kind = work.kind
    BY <1>0, <2>1 DEF Job
  <2> QED BY <1>9, <2>1, <2>2 DEF Stages
<1>10. CASE Unmergeable \/ SetDone \/ Close
  <2>1. work.pc \in Stages /\ \E pc \in {"next", "close"} :
          work' = [work EXCEPT !.pc = pc] \/ \E R : work' = [work EXCEPT !.pc = pc, !.rest = R]
    BY <1>10 DEF Unmergeable, SetDone, Close, Step, Stages
  <2>2. work'.pc \in {"next", "close"} /\ work'.job = work.job /\ work'.kind = work.kind
    BY <1>0, <2>1 DEF Job
  <2> QED BY <2>1, <2>2 DEF Stages
<1>11. CASE NextSibling
  <2>1. CASE work' = Idle
    BY <1>2, <2>1, IdleIsJob
  <2>2. ASSUME NEW j \in work.rest,
               work' = [work EXCEPT !.pc = "prepare", !.issue = j, !.what = "ready",
                                    !.snap = mirror[j].labels, !.rest = work.rest \ {j}]
        PROVE  Goal
    <3>1. work'.pc = "prepare" /\ work'.what = "ready" /\ work'.job = work.job /\ work'.kind = work.kind
      BY <1>0, <2>2 DEF Job
    <3>2. work.pc = "next"
      BY <1>11 DEF NextSibling
    <3> QED BY <3>1, <3>2 DEF Stages
  <2> QED BY <1>11, <2>1, <2>2 DEF NextSibling
<1> HIDE DEF Goal
<1>12. work' = work => Goal
  BY <1>1
<1> QED BY <1>3, <1>4, <1>5, <1>6, <1>7, <1>8, <1>9, <1>10, <1>11, <1>12 DEF Next, Control, Work

\* A git job is scheduled by a decision, or was in hand; where merges are gated, what the
\* decision was made from shows a signature.
LEMMA GateJobMoves ==
  ASSUME TypeOK, JobInv, [Next]_vars
  PROVE  \A j \in Issues :
           config.gated /\ gateJob'[j] \in {"land", "merge"}
             => \/ gateJob[j] \in {"land", "merge"} \/ Backed(mirror[j])
                \/ work.pc \in {"next"} \cup Stages /\ j = work.job /\ work.kind = gateJob'[j]
<1> DEFINE Goal ==
         \A j \in Issues :
           config.gated /\ gateJob'[j] \in {"land", "merge"}
             => \/ gateJob[j] \in {"land", "merge"} \/ Backed(mirror[j])
                \/ work.pc \in {"next"} \cup Stages /\ j = work.job /\ work.kind = gateJob'[j]
<1> SUFFICES Goal
  OBVIOUS
<1>0. gateJob \in [Issues -> {"no", "ready", "land", "merge"}] /\ work \in Job
  BY DEF TypeOK
<1>1. gateJob' = gateJob => Goal
  OBVIOUS
<1>2. ASSUME NEW res \in results, DigestResult(res) PROVE Goal
  BY <1>1, <1>2, DigestApplies, ApplyKept
<1>3. ASSUME NEW i \in Issues, NEW k \in EventKinds, ResolveGate(i, k) PROVE Goal
  <2>1. remote[i] \in LooseEntry
    BY EntryIsLoose DEF TypeOK
  <2>2. PICK judged \in Parked :
          UNCHANGED gateJob \/ Apply(i, Resolution(judged, mirror[i], remote[i], k))
    BY <1>3 DEF ResolveGate
  <2> QED BY <1>1, <2>1, <2>2, ResolutionSound, ApplyKept
<1>4. CASE Sync
  <2>1. \A j \in Issues : gateJob'[j] \in {gateJob[j], "no"}
    BY <1>4 DEF Sync
  <2> QED BY <2>1
<1>5. ASSUME NEW i \in Issues, ClaimGate(i) PROVE Goal
  BY <1>0, <1>5 DEF ClaimGate
<1>6. CASE Crash
  <2>1. CASE work.pc \in {"go", "agent"}
    BY <1>1, <1>6, <2>1 DEF Crash, jobs
  <2>2. CASE work.pc \notin {"go", "agent"}
    <3>1. gateJob' = [gateJob EXCEPT ![work.job] = work.kind]
      BY <1>6, <2>2 DEF Crash, Requeued
    <3>2. work.pc \in {"next"} \cup Stages
      BY <1>0, <1>6, <2>2 DEF Crash, Job, Stages
    <3> QED BY <1>0, <3>1, <3>2
  <2> QED BY <2>1, <2>2
<1>7. \/ People \/ WorkGoes \/ NothingToClaim \/ Prepared \/ Unmergeable \/ Merge \/ SetDone
      \/ Close \/ NextSibling \/ UNCHANGED vars
      \/ (\E i \in Issues : ClaimRun(i) \/ RunEnds(i) \/ RunFails(i))
      => gateJob' = gateJob
  BY DEF People, Reacts, Says, Cancels, WorkGoes, NothingToClaim, Prepared, Unmergeable, Merge,
         SetDone, Close, NextSibling, vars, jobs, ClaimRun, RunEnds, RunFails
<1>8. (\E i \in Issues, k \in EventKinds :
             \/ Ignore(i, k) \/ ParkForApproval(i, k)
             \/ BlockOnCancelled(i, k) \/ HoldOnDeps(i, k) \/ PollPasses(i, k)
             \/ \E intent \in {"implement", "review"} : ScheduleRun(i, k, intent))
      => gateJob' = gateJob
  BY DEF Ignore, ParkForApproval, BlockOnCancelled, HoldOnDeps, PollPasses, ScheduleRun, jobs
<1> HIDE DEF Goal
<1> QED BY <1>1, <1>2, <1>3, <1>4, <1>5, <1>6, <1>7, <1>8 DEF Next, Control, Work

\* A run to implement an issue is scheduled when its dependencies are met, or was in hand.
LEMMA RunJobMoves ==
  ASSUME TypeOK, JobInv, [Next]_vars
  PROVE  \A j \in Issues :
           runJob'[j] = "implement"
             => \/ runJob[j] = "implement" \/ DepsMet(j)
                \/ work.pc = "agent" /\ j = work.job /\ work.kind = "implement"
<1> DEFINE Goal ==
         \A j \in Issues :
           runJob'[j] = "implement"
             => \/ runJob[j] = "implement" \/ DepsMet(j)
                \/ work.pc = "agent" /\ j = work.job /\ work.kind = "implement"
<1> SUFFICES Goal
  OBVIOUS
<1>0. runJob \in [Issues -> {"no", "implement", "review"}] /\ work \in Job
  BY DEF TypeOK
<1>1. runJob' = runJob => Goal
  OBVIOUS
<1>2. ASSUME NEW i \in Issues, NEW k \in EventKinds, NEW intent \in {"implement", "review"},
             ScheduleRun(i, k, intent)
      PROVE  Goal
  <2>1. intent = "implement" => DepsMet(i)
    BY <1>2 DEF ScheduleRun
  <2>2. runJob' = runJob \/ runJob' = [runJob EXCEPT ![i] = intent]
    BY <1>2 DEF ScheduleRun
  <2> QED BY <1>0, <1>1, <2>1, <2>2
<1>3. CASE Sync
  <2>1. \A j \in Issues : runJob'[j] \in {runJob[j], "no"}
    BY <1>3 DEF Sync
  <2> QED BY <2>1
<1>4. ASSUME NEW i \in Issues, ClaimRun(i) PROVE Goal
  BY <1>0, <1>4 DEF ClaimRun
<1>5. CASE Crash \/ \E i \in Issues : RunFails(i)
  <2>1. runJob' = runJob \/ (work.pc = "agent" /\ runJob' = [runJob EXCEPT ![work.job] = work.kind])
    BY <1>5 DEF Crash, RunFails, Requeued, jobs
  <2> QED BY <1>0, <1>1, <2>1
<1>6. \/ People \/ WorkGoes \/ NothingToClaim \/ Prepared \/ Unmergeable \/ Merge \/ SetDone
      \/ Close \/ NextSibling \/ UNCHANGED vars \/ (\E res \in results : DigestResult(res))
      \/ (\E i \in Issues : ClaimGate(i) \/ RunEnds(i))
      => runJob' = runJob
  BY DEF People, Reacts, Says, Cancels, WorkGoes, NothingToClaim, Prepared, Unmergeable, Merge,
         SetDone, Close, NextSibling, vars, jobs, ClaimGate, RunEnds, DigestResult
<1>7. (\E i \in Issues, k \in EventKinds :
             \/ Ignore(i, k) \/ ParkForApproval(i, k) \/ ResolveGate(i, k)
             \/ BlockOnCancelled(i, k) \/ HoldOnDeps(i, k) \/ PollPasses(i, k))
      => runJob' = runJob
  BY DEF Ignore, ParkForApproval, ResolveGate, BlockOnCancelled, HoldOnDeps, PollPasses, jobs
<1> HIDE DEF Goal
<1> QED BY <1>1, <1>2, <1>3, <1>4, <1>5, <1>6, <1>7 DEF Next, Control, Work

----------------------------------------------------------------------------
(* A merge is signed for *)

\* Every signature an entry shows is a person's; where merges are gated, each job that
\* will merge is about an issue somebody has signed for.
SignedInv ==
  /\ \A i \in Issues : Backed(remote[i]) \/ Backed(mirror[i]) => i \in signed
  /\ config.gated =>
       /\ \A i \in Issues : gateJob[i] \in {"land", "merge"} => i \in signed
       /\ work.pc \in {"next"} \cup Stages /\ work.kind \in {"land", "merge"} => work.job \in signed
       /\ work.pc = "merge" \/ (work.pc = "prepare" /\ work.what = "land") => work.issue \in signed

\* The primary branch has the issue that is about to be called done, as its branch is, and
\* whatever reads done.
MergedInv ==
  /\ work.pc = "done" => branch[work.issue] > 0 /\ merged[work.issue] = branch[work.issue]
  /\ \A d \in Issues : "done" \in remote[d].labels \cup mirror[d].labels => merged[d] > 0

\* What an issue depends on is merged before a run to implement the issue is scheduled.
DepsMerged(i) == \A d \in config.deps[i] : merged[d] > 0
OrderInv ==
  /\ \A i \in Issues : runJob[i] = "implement" => DepsMerged(i)
  /\ work.pc = "agent" /\ work.kind = "implement" => DepsMerged(work.job)

\* What the handlers and the work lane rely on of each other.
IssueInv == TypeOK /\ JobInv /\ SignedInv /\ MergedInv /\ OrderInv

\* The invariant holds at the start.
LEMMA IssueInit == Init => IssueInv
<1> SUFFICES ASSUME Init PROVE IssueInv
  OBVIOUS
<1>1. TypeOK /\ JobInv
  BY TypeInit
<1>2. \A i \in Issues : ~Backed(remote[i]) /\ mirror[i] = remote[i] /\ remote[i].labels = {"todo"}
  BY DEF Init, NewEntry, Backed
<1>3. work.pc = "idle" /\ \A i \in Issues : gateJob[i] = "no" /\ runJob[i] = "no"
  BY IdleIsJob DEF Init
<1> QED BY <1>1, <1>2, <1>3 DEF IssueInv, SignedInv, MergedInv, OrderInv, Stages

\* Every step keeps signatures and what they allow together.
LEMMA SignedStep == TypeOK /\ JobInv /\ SignedInv /\ [Next]_vars => SignedInv'
<1> SUFFICES ASSUME TypeOK, JobInv, SignedInv, [Next]_vars PROVE SignedInv'
  OBVIOUS
<1>0. (TypeOK /\ JobInv)'
  BY TypeStep
<1>1. \A i \in Issues : i \in signed => i \in signed'
  BY OtherMoves
<1>2. \A i \in Issues : Backed(remote'[i]) => i \in signed'
  <2>1. \A i \in Issues : Backed(remote'[i]) => Backed(remote[i]) \/ i \in signed'
    BY RemoteStep DEF RemoteKept, Kept
  <2> QED BY <1>1, <2>1 DEF SignedInv
<1>3. \A i \in Issues : Backed(mirror'[i]) => i \in signed'
  BY <1>1, OtherMoves DEF SignedInv
<1>4. config' = config
  BY OtherMoves
<1>5. ASSUME config.gated
      PROVE  \A i \in Issues : gateJob'[i] \in {"land", "merge"} => i \in signed'
  BY <1>1, <1>5, GateJobMoves DEF SignedInv
<1>6. ASSUME config.gated, work'.pc \in {"next"} \cup Stages, work'.kind \in {"land", "merge"}
      PROVE  work'.job \in signed'
  <2>1. work'.job \in Issues
    BY <1>0, <1>6 DEF JobInv
  <2> QED BY <1>1, <1>6, <2>1, WorkMoves DEF SignedInv, JobInv
<1>7. ASSUME config.gated, work'.pc = "merge" \/ (work'.pc = "prepare" /\ work'.what = "land")
      PROVE  work'.issue \in signed'
  <2>1. work'.issue \in Issues
    BY <1>0, <1>7 DEF JobInv, Stages
  <2>2. CASE work'.pc = "merge"
    BY <1>1, <1>7, <2>1, <2>2, WorkMoves DEF SignedInv
  <2>3. CASE work'.pc = "prepare" /\ work'.what = "land"
    BY <1>1, <1>7, <2>1, <2>3, WorkMoves DEF SignedInv
  <2> QED BY <1>7, <2>2, <2>3
<1> QED BY <1>2, <1>3, <1>4, <1>5, <1>6, <1>7 DEF SignedInv, Backed

\* What the primary branch has of an issue, it keeps something of.
LEMMA MergedStays ==
  ASSUME TypeOK, JobInv, [Next]_vars, NEW d \in Issues, merged[d] > 0
  PROVE  merged'[d] > 0
<1>1. CASE Merge
  <2>1. work.issue \in Issues
    BY <1>1 DEF Merge, JobInv, Stages
  <2> QED BY <1>1, <2>1 DEF Merge, TypeOK
<1>2. CASE ~Merge
  BY <1>2, GitMoves
<1> QED BY <1>1, <1>2

\* Every step keeps what reads done on the primary branch.
LEMMA MergedStep == TypeOK /\ JobInv /\ MergedInv /\ [Next]_vars => MergedInv'
<1> SUFFICES ASSUME TypeOK, JobInv, MergedInv, [Next]_vars PROVE MergedInv'
  OBVIOUS
<1>1. ASSUME work'.pc = "done"
      PROVE  branch'[work'.issue] > 0 /\ merged'[work'.issue] = branch'[work'.issue]
  <2>1. CASE Merge
    <3>1. work.issue \in Issues
      BY <2>1 DEF Merge, JobInv, Stages
    <3>2. /\ branch[work.issue] > 0 /\ branch' = branch
          /\ merged'[work.issue] = branch[work.issue]
      BY <2>1, <3>1 DEF Merge, TypeOK
    <3>3. work'.issue = work.issue
      BY <1>1, WorkMoves
    <3> QED BY <3>2, <3>3
  <2>2. CASE ~Merge
    <3>1. work.pc = "done" /\ work'.issue = work.issue
      BY <1>1, <2>2, WorkMoves
    <3>2. branch' = branch /\ merged' = merged
      BY <2>2, <3>1, GitMoves
    <3> QED BY <3>1, <3>2 DEF MergedInv
  <2> QED BY <2>1, <2>2
<1>2. ASSUME NEW d \in Issues, "done" \in remote'[d].labels \cup mirror'[d].labels
      PROVE  merged'[d] > 0
  <2>1. CASE "done" \in remote[d].labels \cup mirror[d].labels
    BY <2>1, MergedStays DEF MergedInv
  <2>2. CASE ~("done" \in remote[d].labels \cup mirror[d].labels)
    <3>1. "done" \in remote'[d].labels
      BY <1>2, <2>2, OtherMoves
    <3>2. SetDone /\ d = work.issue
      BY <2>2, <3>1, RemoteStep DEF RemoteKept, Kept
    <3>3. work.pc = "done"
      BY <3>2 DEF SetDone
    <3>4. merged[d] > 0
      BY <3>2, <3>3 DEF MergedInv
    <3> QED BY <3>4, MergedStays
  <2> QED BY <2>1, <2>2
<1> QED BY <1>1, <1>2 DEF MergedInv

\* Every step keeps runs behind their dependencies.
LEMMA OrderStep == TypeOK /\ JobInv /\ MergedInv /\ OrderInv /\ [Next]_vars => OrderInv'
<1> SUFFICES ASSUME TypeOK, JobInv, MergedInv, OrderInv, [Next]_vars PROVE OrderInv'
  OBVIOUS
<1>0. (TypeOK /\ JobInv)'
  BY TypeStep
<1>1. config' = config /\ config.deps \in [Issues -> SUBSET Issues]
  BY OtherMoves, LifecycleAssumption DEF TypeOK
<1>2. ASSUME NEW i \in Issues, DepsMerged(i) PROVE DepsMerged(i)'
  BY <1>1, <1>2, MergedStays DEF DepsMerged
<1>3. ASSUME NEW i \in Issues, DepsMet(i) PROVE DepsMerged(i)
  <2> SUFFICES ASSUME NEW d \in config.deps[i] PROVE merged[d] > 0
    BY DEF DepsMerged
  <2>1. d \in Issues /\ MayBe(d, {"done"})
    BY <1>1, <1>3 DEF DepsMet
  <2>2. "done" \in mirror[d].labels
    BY <2>1 DEF MayBe, Readings
  <2> QED BY <2>1, <2>2 DEF MergedInv
<1>4. ASSUME NEW i \in Issues, runJob'[i] = "implement" PROVE DepsMerged(i)'
  BY <1>2, <1>3, <1>4, RunJobMoves DEF OrderInv
<1>5. ASSUME work'.pc = "agent", work'.kind = "implement"
      PROVE  \A d \in config'.deps[work'.job] : merged'[d] > 0
  <2>1. work'.job \in Issues
    BY <1>0, <1>5 DEF JobInv
  <2>2. DepsMerged(work'.job)
    BY <1>5, <2>1, WorkMoves DEF OrderInv
  <2> QED BY <1>1, <2>1, <2>2, MergedStays DEF DepsMerged
<1> QED BY <1>4, <1>5 DEF OrderInv, DepsMerged

----------------------------------------------------------------------------
(* Reviews are counted *)

\* A review of issue i is pending, being written, or not yet digested.
Reviewing(i) ==
  \/ runJob[i] = "review"
  \/ work.pc = "agent" /\ work.issue = i /\ work.kind = "review"
  \/ \E res \in results : res.issue = i /\ res.intent = "review"

\* No event of the issue is waiting.
Quiet(i) == \A k \in EventKinds : pend[i][k] = "no"

\* One run of an issue at a time: pending, with the agent, or its result at hand.
SoleInv ==
  /\ work.pc # "idle" => results = {}
  /\ \A a, b \in results : a = b
  /\ \A res \in results : runJob[res.issue] = "no"
  /\ work.pc = "agent" => runJob[work.issue] = "no"

\* The mirror of issue i has heard of every rework; or no review of it is under way, and
\* none can be scheduled before the next sync: nothing says so that is not stale, or no
\* event is left to say it.  A run starts when the events are drained, which is for good
\* unless they are held for a dependency.
Heard(i) ==
  \/ reworks[i] <= mirror[i].reviews
  \/ /\ ~Reviewing(i)
     /\ "in_review" \notin mirror[i].labels \cap remote[i].labels \/ Quiet(i)
     /\ config.deps[i] = {} /\ (work.pc # "idle" \/ results # {}) => Quiet(i)

\* Every rework has posted its review.
CountInv ==
  \A i \in Issues :
    /\ remote[i].labels # {} /\ mirror[i].labels # {}
    /\ reworks[i] <= remote[i].reviews
    /\ config.deps[i] = {} => \A k \in EventKinds : pend[i][k] # "later"
    /\ config.deps[i] = {} \/ OneLabel(mirror[i]) => Heard(i)

\* Nobody but the digestion of a result posts a review or makes an issue read in_review.
Tame(e, r) ==
  /\ e.reviews = r.reviews
  /\ e.labels # {}
  /\ "in_review" \in e.labels => "in_review" \in r.labels

AllTame  == \A j \in Issues : Tame(remote'[j], remote[j])
Labelled == \A j \in Issues : remote[j].labels # {}

\* Setting a status is tame, unless the status is in_review.
LEMMA SetStatusTame ==
  ASSUME NEW r \in LooseEntry, NEW known, NEW s \in Statuses \ {"in_review"}
  PROVE  Tame(SetStatus(r, known, s), r)
<1> DEFINE l == (r.labels \ known) \cup {s}
<1>1. SetStatus(r, known, s) = [r EXCEPT !.labels = l]
  BY DEF SetStatus
<1>2. l # {} /\ ("in_review" \in l => "in_review" \in r.labels)
  OBVIOUS
<1> HIDE DEF l
<1> QED BY <1>1, <1>2 DEF LooseEntry, Tame

\* Opening a gate leaves the labels and the reviews alone.
LEMMA AskTame ==
  ASSUME NEW r, NEW e \in LooseEntry, Tame(e, r), NEW g \in GateKinds
  PROVE  Tame(Ask(e, g), r)
<1> DEFINE G == [e.gate EXCEPT ![g] = [apr |-> LastApr(e) + 1, by |-> {}]]
<1>1. Ask(e, g) = [e EXCEPT !.gate = G]
  BY DEF Ask, LooseEntry
<1> HIDE DEF G
<1>2. [e EXCEPT !.gate = G].reviews = e.reviews /\ [e EXCEPT !.gate = G].labels = e.labels
  BY DEF LooseEntry
<1> QED BY <1>1, <1>2 DEF Tame

\* Both, one after the other.
LEMMA StatusAskTame ==
  ASSUME NEW r \in LooseEntry, NEW known, NEW s \in Statuses \ {"in_review", "done"}, NEW g \in GateKinds
  PROVE  Tame(Ask(SetStatus(r, known, s), g), r)
<1>1. SetStatus(r, known, s) \in LooseEntry
  BY FollowsSelf, FollowsSetStatus DEF Follows
<1> QED BY <1>1, SetStatusTame, AskTame

\* What a person's signal or directive makes of an issue is tame.
LEMMA ResolutionTame ==
  ASSUME NEW r \in LooseEntry, r.labels # {}, NEW c, NEW k, NEW judged \in Parked
  PROVE  Tame(Resolution(judged, c, r, k).entry, r)
<1>1. \A g : Tame(WithGit(r, g).entry, r)
  BY DEF WithGit, Tame
<1>2. Tame(Only(r).entry, r)
  BY DEF Only, Tame
<1>3. Tame(ToStatus(c, r, "todo").entry, r)
  BY SetStatusTame DEF ToStatus, Only, Statuses
<1>4. Tame(Reworked(c, r, k).entry, r)
  BY <1>2, <1>3 DEF Reworked
<1>5. Tame(SettleOrMerge(r).entry, r)
  BY <1>1 DEF SettleOrMerge
<1>6. Tame(ResolvePure(c, r).entry, r)
  <2>1. Tame(Only(Ask(SetStatus(r, c.labels, "awaiting_merge"), "pure")).entry, r)
    BY StatusAskTame DEF Only, Statuses, GateKinds
  <2> QED BY <1>1, <1>2, <2>1 DEF ResolvePure
<1>7. Tame(ResolveCombined(c, r, k).entry, r)
  BY <1>1, <1>4 DEF ResolveCombined
<1>8. Tame(ResolvePlain(c, r, k).entry, r)
  BY <1>3, <1>4, <1>5 DEF ResolvePlain
<1>9. Tame(ResolveApproval(c, r, k).entry, r)
  BY <1>6, <1>7, <1>8 DEF ResolveApproval
<1>10. Tame(ResolveAwaitingMerge(c, r, k).entry, r)
  BY <1>1, <1>4 DEF ResolveAwaitingMerge
<1>11. Tame(ResolveBlocked(c, r, k).entry, r)
  BY <1>1, <1>4 DEF ResolveBlocked
<1> QED BY <1>9, <1>10, <1>11 DEF Resolution, Parked

\* One entry is written, tamely.
LEMMA TameOne ==
  ASSUME TypeOK, Labelled, NEW i \in Issues, NEW e, Tame(e, remote[i]),
         remote' = [remote EXCEPT ![i] = e]
  PROVE  AllTame
<1>1. \A j \in Issues : remote'[j] = IF j = i THEN e ELSE remote[j]
  BY DEF TypeOK
<1> QED BY <1>1 DEF AllTame, Tame, Labelled

\* Nothing is written.
LEMMA TameSelf == Labelled /\ UNCHANGED remote => AllTame
  BY DEF Labelled, AllTame, Tame

\* People react, comment and cancel.
LEMMA PeopleTame ==
  ASSUME TypeOK, Labelled, People
  PROVE  AllTame
<1>0. remote \in [Issues -> Entry]
  BY DEF TypeOK
<1>1. ASSUME NEW i \in Issues, NEW g \in GateKinds, NEW s \in Signals, Reacts(i, g, s) PROVE AllTame
  <2> DEFINE G == [remote[i].gate EXCEPT ![g].by = @ \cup {s}]
  <2>1. remote' = [remote EXCEPT ![i] = [remote[i] EXCEPT !.gate = G]]
    BY <1>0, <1>1 DEF Reacts, Entry
  <2> HIDE DEF G
  <2>2. Tame([remote[i] EXCEPT !.gate = G], remote[i])
    BY <1>0 DEF Entry, Tame, Labelled
  <2> QED BY <2>1, <2>2, TameOne
<1>2. ASSUME NEW i \in Issues, NEW w \in Words, Says(i, w) PROVE AllTame
  <2> DEFINE t == remote[i].said \cup ({w} \cap Signals)
             n == remote[i].spoken + 1
  <2>1. remote' = [remote EXCEPT ![i] = [remote[i] EXCEPT !.said = t, !.last = w, !.spoken = n]]
    BY <1>0, <1>2 DEF Says, Entry
  <2> HIDE DEF t, n
  <2>2. Tame([remote[i] EXCEPT !.said = t, !.last = w, !.spoken = n], remote[i])
    BY <1>0 DEF Entry, Tame, Labelled
  <2> QED BY <2>1, <2>2, TameOne
<1>3. ASSUME NEW i \in Issues, Cancels(i) PROVE AllTame
  <2>1. \/ remote' = [remote EXCEPT ![i] = [remote[i] EXCEPT !.labels = {"wont_do"}]]
        \/ remote' = [remote EXCEPT ![i] = [remote[i] EXCEPT !.open = FALSE]]
    BY <1>0, <1>3 DEF Cancels, Entry
  <2>2. /\ Tame([remote[i] EXCEPT !.labels = {"wont_do"}], remote[i])
        /\ Tame([remote[i] EXCEPT !.open = FALSE], remote[i])
    BY <1>0 DEF Entry, Tame, Labelled
  <2> QED BY <2>1, <2>2, TameOne
<1> QED BY <1>1, <1>2, <1>3 DEF People

\* Every step but a digestion is tame.
LEMMA StepTame ==
  ASSUME TypeOK, JobInv, Labelled, [Next]_vars
  PROVE  AllTame \/ \E res \in results : DigestResult(res)
<1>0. \A i \in Issues : remote[i] \in LooseEntry /\ remote[i].labels # {}
  BY EntryIsLoose DEF TypeOK, Labelled
<1>1. ASSUME NEW i \in Issues, NEW k \in EventKinds, ResolveGate(i, k) PROVE AllTame
  <2>1. PICK judged \in Parked :
          UNCHANGED remote \/ Apply(i, Resolution(judged, mirror[i], remote[i], k))
    BY <1>1 DEF ResolveGate
  <2> QED BY <1>0, <2>1, ResolutionTame, TameOne, TameSelf DEF Apply
<1>2. ASSUME NEW i \in Issues, NEW k \in EventKinds, ParkForApproval(i, k) PROVE AllTame
  <2>1. remote' = [remote EXCEPT ![i] =
             Ask(SetStatus(remote[i], mirror[i].labels, "awaiting_approval"), "ask")]
    BY <1>2 DEF ParkForApproval
  <2> QED BY <1>0, <2>1, StatusAskTame, TameOne DEF Statuses, GateKinds
<1>3. ASSUME NEW i \in Issues, NEW k \in EventKinds, BlockOnCancelled(i, k) PROVE AllTame
  <2>1. remote' = [remote EXCEPT ![i] = SetStatus(remote[i], mirror[i].labels, "blocked")]
    BY <1>3 DEF BlockOnCancelled
  <2> QED BY <1>0, <2>1, SetStatusTame, TameOne DEF Statuses
<1>4. CASE Prepared
  <2> DEFINE i == work.issue
  <2>1. i \in Issues
    BY <1>4 DEF Prepared, JobInv, Stages
  <2>2. \/ UNCHANGED remote
        \/ remote' = [remote EXCEPT ![i] = Ask(remote[i], "pure")]
        \/ remote' = [remote EXCEPT ![i] =
             Ask(SetStatus(remote[i], work.snap, "awaiting_approval"), "pure")]
    BY <1>4 DEF Prepared
  <2> HIDE DEF i
  <2>3. Tame(Ask(remote[i], "pure"), remote[i])
    BY <1>0, <2>1, AskTame DEF Tame, GateKinds
  <2>4. Tame(Ask(SetStatus(remote[i], work.snap, "awaiting_approval"), "pure"), remote[i])
    BY <1>0, <2>1, StatusAskTame DEF Statuses, GateKinds
  <2> QED BY <2>1, <2>2, <2>3, <2>4, TameOne, TameSelf
<1>5. CASE Unmergeable
  <2>1. work.issue \in Issues
    BY <1>5 DEF Unmergeable, JobInv, Stages
  <2>2. remote' = [remote EXCEPT ![work.issue] = SetStatus(remote[work.issue], work.snap, "blocked")]
    BY <1>5 DEF Unmergeable
  <2> QED BY <1>0, <2>1, <2>2, SetStatusTame, TameOne DEF Statuses
<1>6. CASE SetDone
  <2>1. work.issue \in Issues
    BY <1>6 DEF SetDone, JobInv, Stages
  <2>2. remote' = [remote EXCEPT ![work.issue] = SetStatus(remote[work.issue], work.snap, "done")]
    BY <1>6 DEF SetDone
  <2> QED BY <1>0, <2>1, <2>2, SetStatusTame, TameOne DEF Statuses
<1>7. CASE Close
  <2>1. work.issue \in Issues
    BY <1>7 DEF Close, JobInv, Stages
  <2>2. remote' = [remote EXCEPT ![work.issue] = [remote[work.issue] EXCEPT !.open = FALSE]]
    BY <1>7, <2>1 DEF Close, TypeOK, Entry
  <2>3. Tame([remote[work.issue] EXCEPT !.open = FALSE], remote[work.issue])
    BY <1>0, <2>1 DEF LooseEntry, Tame
  <2> QED BY <2>1, <2>2, <2>3, TameOne
<1>8. ASSUME NEW i \in Issues, NEW k \in EventKinds,
             \/ Ignore(i, k) \/ HoldOnDeps(i, k) \/ PollPasses(i, k)
             \/ \E intent \in {"implement", "review"} : ScheduleRun(i, k, intent)
      PROVE  AllTame
  BY <1>8, TameSelf DEF Ignore, HoldOnDeps, PollPasses, ScheduleRun
<1>9. CASE \E i \in Issues : ClaimRun(i) \/ RunEnds(i) \/ RunFails(i) \/ ClaimGate(i)
  BY <1>9, TameSelf DEF ClaimRun, RunEnds, RunFails, ClaimGate
<1>10. CASE Sync \/ WorkGoes \/ NothingToClaim \/ Merge \/ NextSibling \/ Crash \/ UNCHANGED vars
  BY <1>10, TameSelf DEF Sync, WorkGoes, NothingToClaim, Merge, NextSibling, Crash, vars
<1> QED BY <1>1, <1>2, <1>3, <1>4, <1>5, <1>6, <1>7, <1>8, <1>9, <1>10, PeopleTame
       DEF Next, Control, Work

\* What the digestion of a result does to its issue: nothing; a run's outcome, judged by a
\* status the mirror has; or a review, which is counted, and which the mirror's count let
\* send the issue back.
LEMMA DigestMoves ==
  ASSUME TypeOK, JobInv, Labelled, NEW res \in results, DigestResult(res)
  PROVE  /\ \A j \in Issues \ {res.issue} : remote'[j] = remote[j] /\ reworks'[j] = reworks[j]
         /\ Labelled'
         /\ \/ UNCHANGED <<remote, reworks>>
            \/ /\ res.intent = "implement" /\ reworks' = reworks
               /\ remote'[res.issue].reviews = remote[res.issue].reviews
               /\ \E judged \in Readings(mirror[res.issue].labels) :
                    judged \in remote[res.issue].labels
            \/ /\ res.intent = "review"
               /\ remote'[res.issue].reviews = remote[res.issue].reviews + 1
               /\ \/ reworks' = reworks
                  \/ /\ reworks' = [reworks EXCEPT ![res.issue] = reworks[res.issue] + 1]
                     /\ mirror[res.issue].reviews + 1 < MaxReviews
                     /\ "in_review" \notin mirror[res.issue].labels \cap remote'[res.issue].labels
<1> DEFINE i == res.issue
           c == mirror[i]
           r == remote[i]
<1>1. i \in Issues /\ res.intent \in {"implement", "review"} /\ res.report \in Reports(res.intent)
  BY DEF TypeOK, JobInv
<1>2. r \in LooseEntry /\ r.labels # {} /\ r.reviews \in Nat
  BY <1>1, EntryIsLoose DEF TypeOK, Labelled, LooseEntry
<1> DEFINE e == IF res.intent = "implement" THEN AfterImplement(c, r, res.report)
                ELSE AfterReview(c, r, res.report)
<1>3. \/ UNCHANGED <<remote, reworks>>
      \/ /\ remote' = [remote EXCEPT ![i] = e.entry]
         /\ reworks' = IF res.intent = "review" /\ ReviewReworks(c, res.report)
                       THEN [reworks EXCEPT ![i] = reworks[i] + 1] ELSE reworks
         /\ \E judged \in Readings(c.labels), now \in Readings(r.labels) : ~Stale(now, judged)
  BY <1>1 DEF DigestResult, Apply, TypeOK
<1>4. (\E judged \in Readings(c.labels), now \in Readings(r.labels) : ~Stale(now, judged))
        => \E judged \in Readings(c.labels) : judged \in r.labels
  <2>1. Readings(r.labels) = r.labels
    BY <1>2 DEF Readings
  <2>2. "none" \notin r.labels
    BY <1>2 DEF LooseEntry, Statuses
  <2> QED BY <2>1, <2>2 DEF Stale
<1>5. /\ AfterImplement(c, r, res.report).entry.reviews = r.reviews
      /\ AfterImplement(c, r, res.report).entry.labels # {}
  <2> DEFINE f == SetStatus(r, c.labels, "in_review")
  <2>1. f.reviews = r.reviews /\ f.labels # {}
    BY <1>2 DEF SetStatus, LooseEntry
  <2>2. /\ Tame(SetStatus(r, c.labels, "blocked"), r)
        /\ Tame(Ask(SetStatus(r, c.labels, "awaiting_approval"), "ask"), r)
    BY <1>2, SetStatusTame, StatusAskTame DEF Statuses, GateKinds
  <2>3. Tame(r, r)
    BY <1>2 DEF Tame
  <2> HIDE DEF f
  <2>4. AfterImplement(c, r, res.report).entry \in
          {f, r, SetStatus(r, c.labels, "blocked"),
           Ask(SetStatus(r, c.labels, "awaiting_approval"), "ask")}
    BY DEF AfterImplement, ToStatus, Only, SettleOrMerge, WithGit, f
  <2> QED BY <2>1, <2>2, <2>3, <2>4 DEF Tame
<1>6. ASSUME res.intent = "review"
      PROVE  /\ AfterReview(c, r, res.report).entry.reviews = r.reviews + 1
             /\ AfterReview(c, r, res.report).entry.labels # {}
             /\ ReviewReworks(c, res.report)
                  => "in_review" \notin c.labels \cap AfterReview(c, r, res.report).entry.labels
  <2> DEFINE n == r.reviews + 1
             seen == [r EXCEPT !.reviews = n]
             l(s) == (seen.labels \ c.labels) \cup {s}
  <2>1. seen \in LooseEntry /\ seen.reviews = n /\ seen.labels # {}
    BY <1>2 DEF LooseEntry
  <2>2. Tame(seen, seen)
    BY <2>1 DEF Tame
  <2>3. AfterReview(c, r, res.report) =
          CASE res.report = "approve" -> SettleOrMerge(seen)
            [] res.report = "unsure"  -> Only(Ask(SetStatus(seen, c.labels, "awaiting_approval"),
                                            IF config.gated THEN "combined" ELSE "ask"))
            [] res.report = "changes" -> ToStatus(c, seen, IF ReviewReworks(c, res.report)
                                                     THEN "todo" ELSE "blocked")
    BY DEF AfterReview
  <2> HIDE DEF seen
  <2>4. \A g \in GateKinds : Tame(Ask(SetStatus(seen, c.labels, "awaiting_approval"), g), seen)
    BY <2>1, StatusAskTame DEF Statuses
  <2>5. \A s \in {"todo", "blocked"} : Tame(SetStatus(seen, c.labels, s), seen)
    BY <2>1, SetStatusTame DEF Statuses
  <2>6. "in_review" \notin c.labels \cap SetStatus(seen, c.labels, "todo").labels
    BY <2>1 DEF SetStatus, LooseEntry
  <2>7. res.report \in {"approve", "unsure", "changes"}
    BY <1>1, <1>6 DEF Reports
  <2>8. CASE res.report = "approve"
    BY <2>1, <2>2, <2>3, <2>8 DEF SettleOrMerge, WithGit, ReviewReworks
  <2>9. CASE res.report = "unsure"
    BY <2>1, <2>3, <2>4, <2>9 DEF Only, Tame, ReviewReworks, GateKinds
  <2>10. CASE res.report = "changes"
    BY <2>1, <2>3, <2>5, <2>6, <2>10 DEF ToStatus, Only, Tame
  <2> QED BY <2>7, <2>8, <2>9, <2>10
<1>7. ReviewReworks(c, res.report) => c.reviews + 1 < MaxReviews
  BY DEF ReviewReworks
<1>8. /\ e.entry.labels # {}
      /\ res.intent = "implement" => e.entry.reviews = r.reviews
      /\ res.intent = "review" => e.entry.reviews = r.reviews + 1
      /\ res.intent = "review" /\ ReviewReworks(c, res.report)
           => "in_review" \notin c.labels \cap e.entry.labels
  BY <1>1, <1>5, <1>6
<1> HIDE DEF e
<1>9. CASE UNCHANGED <<remote, reworks>>
  BY <1>9 DEF Labelled
<1>10. CASE remote' = [remote EXCEPT ![i] = e.entry] /\ ~UNCHANGED <<remote, reworks>>
  <2>1. /\ remote'[i] = e.entry
        /\ \A j \in Issues \ {i} : remote'[j] = remote[j]
    BY <1>1, <1>10 DEF TypeOK
  <2>2. Labelled'
    BY <1>1, <1>8, <2>1 DEF Labelled
  <2>3. \A j \in Issues \ {i} : reworks'[j] = reworks[j]
    BY <1>1, <1>3, <1>10 DEF TypeOK
  <2>4. CASE res.intent = "implement"
    BY <1>3, <1>4, <1>8, <1>10, <2>1, <2>2, <2>3, <2>4
  <2>5. CASE res.intent = "review"
    BY <1>3, <1>7, <1>8, <1>10, <2>1, <2>2, <2>3, <2>5
  <2> QED BY <1>1, <2>4, <2>5
<1> QED BY <1>3, <1>9, <1>10

\* One run at a time, at the start and after every step.
LEMMA SoleInit == Init => SoleInv
  BY IdleIsJob DEF Init, SoleInv

\* A run is scheduled, claimed, ended and digested before the next.
LEMMA SoleStep == TypeOK /\ JobInv /\ SoleInv /\ [Next]_vars => SoleInv'
<1> SUFFICES ASSUME TypeOK, JobInv, SoleInv, [Next]_vars PROVE SoleInv'
  OBVIOUS
<1>0. /\ runJob \in [Issues -> {"no", "implement", "review"}] /\ work \in Job
      /\ \A res \in results : res.issue \in Issues
  BY DEF TypeOK
<1>1. ASSUME work'.pc = work.pc, work'.issue = work.issue, results' \subseteq results,
             \A j \in Issues : runJob'[j] \in {runJob[j], "no"}
      PROVE  SoleInv'
  <2>1. work.pc = "agent" => work.issue \in Issues
    BY DEF JobInv
  <2> QED BY <1>0, <1>1, <2>1 DEF SoleInv
<1>2. ASSUME work'.pc # "agent", results' = results, work.pc # "idle" \/ results = {}, runJob' = runJob
      PROVE  SoleInv'
  BY <1>2 DEF SoleInv
<1>3. CASE \/ People \/ (\E res \in results : DigestResult(res)) \/ UNCHANGED vars
           \/ (\E i \in Issues, k \in EventKinds :
                  \/ ResolveGate(i, k) \/ Ignore(i, k) \/ ParkForApproval(i, k)
                  \/ BlockOnCancelled(i, k) \/ HoldOnDeps(i, k) \/ PollPasses(i, k))
  <2>1. work' = work /\ runJob' = runJob /\ results' \subseteq results
    BY <1>3 DEF People, Reacts, Says, Cancels, DigestResult, vars, control, jobs, ResolveGate, Ignore,
         ParkForApproval, BlockOnCancelled, HoldOnDeps, PollPasses
  <2> QED BY <1>1, <2>1
<1>4. CASE Sync
  <2>1. \E x : work' = [work EXCEPT !.cut = x]
    BY <1>4 DEF Sync
  <2>2. work'.pc = work.pc /\ work'.issue = work.issue
    BY <1>0, <2>1 DEF Job
  <2>3. results' \subseteq results /\ \A j \in Issues : runJob'[j] \in {runJob[j], "no"}
    BY <1>4 DEF Sync
  <2> QED BY <1>1, <2>2, <2>3
<1>5. ASSUME NEW i \in Issues, NEW k \in EventKinds, NEW intent \in {"implement", "review"},
             ScheduleRun(i, k, intent)
      PROVE  SoleInv'
  <2>1. results = {} /\ results' = results /\ work' = work
    BY <1>5 DEF ScheduleRun, Wanted, Claimed
  <2>2. runJob' = runJob \/ (runJob' = [runJob EXCEPT ![i] = intent]
                             /\ ~(work.pc = "agent" /\ work.issue = i))
    BY <1>5 DEF ScheduleRun, HasRunJob
  <2>3. work.pc = "agent" => work.issue \in Issues
    BY DEF JobInv
  <2> QED BY <1>0, <2>1, <2>2, <2>3 DEF SoleInv
<1>6. CASE WorkGoes \/ NothingToClaim
  BY <1>2, <1>6, IdleIsJob DEF WorkGoes, NothingToClaim, control, jobs, Idle, SoleInv
<1>7. ASSUME NEW i \in Issues, ClaimRun(i) PROVE SoleInv'
  <2>1. results = {} /\ results' = results
    BY <1>7 DEF ClaimRun, control, SoleInv
  <2>2. runJob' = [runJob EXCEPT ![i] = "no"]
    BY <1>7 DEF ClaimRun
  <2>3. work'.pc = "agent" => work'.issue = i
    BY <1>7, IdleIsJob DEF ClaimRun, Idle
  <2> QED BY <1>0, <2>1, <2>2, <2>3 DEF SoleInv
<1>8. ASSUME NEW i \in Issues, RunEnds(i) PROVE SoleInv'
  <2>1. results = {} /\ runJob[i] = "no" /\ runJob' = runJob /\ work'.pc = "idle"
    BY <1>8, IdleIsJob DEF RunEnds, SoleInv, jobs
  <2>2. PICK report \in Reports(work.kind) :
          results' = results \cup {[issue |-> i, intent |-> work.kind, report |-> report]}
    BY <1>8 DEF RunEnds
  <2> QED BY <2>1, <2>2 DEF SoleInv
<1>9. CASE Crash \/ \E i \in Issues : RunFails(i)
  <2>1. results = {} /\ results' = results /\ work'.pc = "idle"
    BY <1>9, IdleIsJob DEF Crash, RunFails, SoleInv, control
  <2> QED BY <2>1 DEF SoleInv
<1>10. ASSUME NEW i \in Issues, ClaimGate(i) PROVE SoleInv'
  <2>1. work.pc # "idle" /\ work'.pc # "agent" /\ results' = results /\ runJob' = runJob
    BY <1>10 DEF ClaimGate, Idle, control
  <2> QED BY <1>2, <2>1
<1>11. CASE Prepared \/ Unmergeable \/ Merge \/ SetDone
  <2>1. work.pc \in Stages /\ \E pc \in Stages \cup {"next"} : work' = [work EXCEPT !.pc = pc]
    BY <1>11 DEF Prepared, Unmergeable, Merge, SetDone, Step, Stages
  <2>2. work'.pc # "agent" /\ work.pc # "idle"
    BY <1>0, <2>1 DEF Job, Stages
  <2>3. runJob' = runJob /\ results' = results
    BY <1>11 DEF Prepared, Unmergeable, Merge, SetDone, control, jobs
  <2> QED BY <1>2, <2>2, <2>3
<1>12. CASE Close \/ NextSibling
  <2>1. work.pc # "idle" /\ work'.pc # "agent"
    BY <1>0, <1>12, IdleIsJob DEF Close, NextSibling, Job
  <2>2. runJob' = runJob /\ results' = results
    BY <1>12 DEF Close, NextSibling, control, jobs
  <2> QED BY <1>2, <2>1, <2>2
<1> QED BY <1>3, <1>4, <1>5, <1>6, <1>7, <1>8, <1>9, <1>10, <1>11, <1>12 DEF Next, Control, Work

\* Only a sync moves the mirror and wakes a silent issue, only the digestion of a result
\* counts a rework, and an event is held only for a dependency.
LEMMA EventMoves ==
  ASSUME TypeOK, [Next]_vars
  PROVE  /\ Sync \/ mirror' = mirror
         /\ (\E res \in results : DigestResult(res)) \/ reworks' = reworks
         /\ \A i \in Issues : Sync \/ (Quiet(i) => Quiet(i)')
         /\ \A i \in Issues, k \in EventKinds :
              pend'[i][k] = "later" => pend[i][k] = "later" \/ config.deps[i] # {}
<1>0. pend \in [Issues -> [EventKinds -> {"no", "ready", "later"}]]
  BY DEF TypeOK
<1> DEFINE Moved == \A i \in Issues, k \in EventKinds :
                      /\ pend[i][k] = "no" => pend'[i][k] = "no"
                      /\ pend'[i][k] = "later" => pend[i][k] = "later" \/ config.deps[i] # {}
<1>1. ASSUME NEW i \in Issues, NEW k \in EventKinds, NEW v \in {"no", "ready", "later"},
             pend' = [pend EXCEPT ![i][k] = v], pend[i][k] = "no" => v = "no",
             v = "later" => config.deps[i] # {}
      PROVE  Moved
  BY <1>0, <1>1
<1>2. pend' = pend => Moved
  OBVIOUS
<1>3. CASE \/ People \/ Crash \/ Work \/ UNCHANGED vars
  BY <1>2, <1>3 DEF People, Reacts, Says, Cancels, Crash, Work, WorkGoes, NothingToClaim, ClaimRun,
     RunEnds, RunFails, ClaimGate, Prepared, Unmergeable, Merge, SetDone, Close, NextSibling,
     control, history, vars, Quiet
<1>4. CASE Sync
  <2>1. \A i \in Issues, k \in EventKinds : pend'[i][k] \in {"ready", "no", pend[i][k]}
    BY <1>0, <1>4 DEF Sync
  <2> QED BY <1>4, <2>1 DEF Sync, history
<1>5. ASSUME NEW res \in results, DigestResult(res)
      PROVE  mirror' = mirror /\ Moved
  BY <1>2, <1>5 DEF DigestResult
<1>6. ASSUME NEW i \in Issues, NEW k \in EventKinds,
             \/ ResolveGate(i, k) \/ Ignore(i, k) \/ ParkForApproval(i, k)
             \/ BlockOnCancelled(i, k) \/ HoldOnDeps(i, k) \/ PollPasses(i, k)
             \/ \E intent \in {"implement", "review"} : ScheduleRun(i, k, intent)
      PROVE  mirror' = mirror /\ reworks' = reworks /\ Moved
  <2>1. mirror' = mirror /\ reworks' = reworks
    BY <1>6 DEF ResolveGate, Ignore, ParkForApproval, BlockOnCancelled, HoldOnDeps, PollPasses,
       ScheduleRun, history
  <2>2. CASE HoldOnDeps(i, k)
    <3>1. pend' = [pend EXCEPT ![i][k] = "later"] /\ pend[i][k] = "ready" /\ config.deps[i] # {}
      BY <2>2 DEF HoldOnDeps, Wanted, Claimed
    <3> HIDE DEF Moved
    <3> QED BY <1>1, <2>1, <3>1
  <2>3. CASE PollPasses(i, k)
    <3>1. pend' = [pend EXCEPT ![i][k] = "ready"] /\ pend[i][k] = "later"
      BY <2>3 DEF PollPasses
    <3> HIDE DEF Moved
    <3> QED BY <1>1, <2>1, <3>1
  <2>4. CASE ~HoldOnDeps(i, k) /\ ~PollPasses(i, k)
    <3>1. pend' = [pend EXCEPT ![i][k] = "no"]
      BY <1>6, <2>4 DEF ResolveGate, Ignore, ParkForApproval, BlockOnCancelled, ScheduleRun, Consume
    <3> HIDE DEF Moved
    <3> QED BY <1>1, <2>1, <3>1
  <2> QED BY <2>2, <2>3, <2>4
<1>7. ASSUME Moved PROVE \A i \in Issues : Quiet(i) => Quiet(i)'
  BY <1>7 DEF Quiet
<1>9. CASE \E res \in results : DigestResult(res)
  BY <1>5, <1>7, <1>9
<1>10. CASE Control /\ ~Sync /\ ~(\E res \in results : DigestResult(res))
  <2>1. mirror' = mirror /\ reworks' = reworks /\ Moved
    <3> HIDE DEF Moved
    <3> QED BY <1>6, <1>10 DEF Control
  <2> QED BY <1>7, <2>1
<1> QED BY <1>3, <1>4, <1>9, <1>10 DEF Next

\* A review begins only where one is scheduled.
LEMMA ReviewMoves ==
  ASSUME TypeOK, JobInv, [Next]_vars, NEW i \in Issues, Reviewing(i)'
  PROVE  Reviewing(i) \/ \E k \in EventKinds : ScheduleRun(i, k, "review")
<1>0. /\ runJob \in [Issues -> {"no", "implement", "review"}] /\ work \in Job
  BY DEF TypeOK
<1>1. ASSUME work'.pc = work.pc, work'.issue = work.issue, work'.kind = work.kind,
             results' \subseteq results, runJob'[i] # "review" \/ runJob[i] = "review"
      PROVE  Reviewing(i)
  BY <1>1 DEF Reviewing
<1>2. ASSUME work'.pc # "agent", results' \subseteq results, runJob'[i] # "review" \/ runJob[i] = "review"
      PROVE  Reviewing(i)
  BY <1>2 DEF Reviewing
<1>3. CASE \/ People \/ (\E res \in results : DigestResult(res)) \/ UNCHANGED vars
           \/ (\E j \in Issues, k \in EventKinds :
                  \/ ResolveGate(j, k) \/ Ignore(j, k) \/ ParkForApproval(j, k)
                  \/ BlockOnCancelled(j, k) \/ HoldOnDeps(j, k) \/ PollPasses(j, k))
  <2>1. work' = work /\ runJob' = runJob /\ results' \subseteq results
    BY <1>3 DEF People, Reacts, Says, Cancels, DigestResult, vars, control, jobs, ResolveGate, Ignore,
         ParkForApproval, BlockOnCancelled, HoldOnDeps, PollPasses
  <2> QED BY <1>1, <2>1
<1>4. CASE Sync
  <2>1. \E x : work' = [work EXCEPT !.cut = x]
    BY <1>4 DEF Sync
  <2>2. work'.pc = work.pc /\ work'.issue = work.issue /\ work'.kind = work.kind
    BY <1>0, <2>1 DEF Job
  <2>3. results' \subseteq results /\ runJob'[i] \in {runJob[i], "no"}
    BY <1>4 DEF Sync
  <2> QED BY <1>1, <2>2, <2>3
<1>5. ASSUME NEW j \in Issues, NEW k \in EventKinds, NEW intent \in {"implement", "review"},
             ScheduleRun(j, k, intent)
      PROVE  Reviewing(i) \/ ScheduleRun(i, k, "review")
  <2>1. results' = results /\ work' = work
    BY <1>5 DEF ScheduleRun
  <2>2. runJob' = runJob \/ runJob' = [runJob EXCEPT ![j] = intent]
    BY <1>5 DEF ScheduleRun
  <2>3. CASE j = i /\ intent = "review"
    BY <1>5, <2>3
  <2>4. CASE ~(j = i /\ intent = "review")
    BY <1>0, <1>1, <2>1, <2>2, <2>4
  <2> QED BY <2>3, <2>4
<1>6. CASE WorkGoes \/ NothingToClaim
  BY <1>2, <1>6, IdleIsJob DEF WorkGoes, NothingToClaim, control, jobs, Idle
<1>7. ASSUME NEW j \in Issues, ClaimRun(j) PROVE Reviewing(i)
  <2>1. results' = results /\ runJob' = [runJob EXCEPT ![j] = "no"]
    BY <1>7 DEF ClaimRun, control
  <2>2. work'.pc = "agent" => work'.issue = j /\ work'.kind = runJob[j]
    BY <1>7, IdleIsJob DEF ClaimRun, Idle
  <2> QED BY <1>0, <2>1, <2>2 DEF Reviewing
<1>8. ASSUME NEW j \in Issues, RunEnds(j) PROVE Reviewing(i)
  <2>1. work.pc = "agent" /\ work.issue = j /\ runJob' = runJob /\ work'.pc = "idle"
    BY <1>8, IdleIsJob DEF RunEnds, jobs
  <2>2. PICK report \in Reports(work.kind) :
          results' = results \cup {[issue |-> j, intent |-> work.kind, report |-> report]}
    BY <1>8 DEF RunEnds
  <2> QED BY <2>1, <2>2 DEF Reviewing
<1>9. CASE Crash \/ \E j \in Issues : RunFails(j)
  <2>1. results' = results /\ work'.pc = "idle"
    BY <1>9, IdleIsJob DEF Crash, RunFails, control
  <2>2. \/ runJob' = runJob
        \/ work.pc = "agent" /\ runJob' = [runJob EXCEPT ![work.issue] = work.kind]
    BY <1>9 DEF Crash, RunFails, Requeued, JobInv, jobs
  <2> QED BY <1>0, <2>1, <2>2 DEF Reviewing
<1>10. ASSUME NEW j \in Issues, ClaimGate(j) PROVE Reviewing(i)
  <2>1. work'.pc # "agent" /\ results' = results /\ runJob' = runJob
    BY <1>10 DEF ClaimGate, Idle, control
  <2> QED BY <1>2, <2>1
<1>11. CASE Prepared \/ Unmergeable \/ Merge \/ SetDone
  <2>1. \E pc \in Stages \cup {"next"} : work' = [work EXCEPT !.pc = pc]
    BY <1>11 DEF Prepared, Unmergeable, Merge, SetDone, Step, Stages
  <2>2. work'.pc # "agent"
    BY <1>0, <2>1 DEF Job, Stages
  <2>3. runJob' = runJob /\ results' = results
    BY <1>11 DEF Prepared, Unmergeable, Merge, SetDone, control, jobs
  <2> QED BY <1>2, <2>2, <2>3
<1>12. CASE Close \/ NextSibling
  <2>1. work'.pc # "agent"
    BY <1>0, <1>12, IdleIsJob DEF Close, NextSibling, Job
  <2>2. runJob' = runJob /\ results' = results
    BY <1>12 DEF Close, NextSibling, control, jobs
  <2> QED BY <1>2, <2>1, <2>2
<1> QED BY <1>3, <1>4, <1>5, <1>6, <1>7, <1>8, <1>9, <1>10, <1>11, <1>12 DEF Next, Control, Work

\* The work lane starts with every event drained.
LEMMA BusyMoves ==
  ASSUME TypeOK, [Next]_vars, work'.pc # "idle" \/ results' # {}
  PROVE  work.pc # "idle" \/ results # {} \/ WorkGoes
<1>1. CASE People \/ Control \/ UNCHANGED vars
  <2>1. results' \subseteq results
    BY <1>1 DEF People, Reacts, Says, Cancels, Control, Sync, DigestResult, vars, control, ResolveGate,
         Ignore, ParkForApproval, BlockOnCancelled, HoldOnDeps, PollPasses, ScheduleRun
  <2>2. CASE Sync
    <3>1. \E x : work' = [work EXCEPT !.cut = x]
      BY <2>2 DEF Sync
    <3> QED BY <2>1, <3>1 DEF TypeOK, Job
  <2>3. CASE ~Sync
    <3>1. work' = work
      BY <1>1, <2>3 DEF People, Reacts, Says, Cancels, Control, DigestResult, vars, ResolveGate,
           Ignore, ParkForApproval, BlockOnCancelled, HoldOnDeps, PollPasses, ScheduleRun
    <3> QED BY <2>1, <3>1
  <2> QED BY <2>2, <2>3
<1>2. CASE Work \/ Crash
  BY <1>2 DEF Work, Crash, NothingToClaim, ClaimRun, RunEnds, RunFails, ClaimGate, Prepared,
     Unmergeable, Merge, SetDone, Close, NextSibling
<1> QED BY <1>1, <1>2 DEF Next

\* Nothing is counted yet, and no event is held.
LEMMA CountInit == Init => CountInv
<1> SUFFICES ASSUME Init, NEW i \in Issues
             PROVE  /\ remote[i].labels # {} /\ mirror[i].labels # {}
                    /\ reworks[i] <= remote[i].reviews
                    /\ config.deps[i] = {} => \A k \in EventKinds : pend[i][k] # "later"
                    /\ config.deps[i] = {} \/ OneLabel(mirror[i]) => Heard(i)
  BY DEF CountInv
<1>1. remote[i] = NewEntry /\ mirror[i] = NewEntry /\ reworks[i] = 0
  BY DEF Init
<1>2. NewEntry.labels = {"todo"} /\ NewEntry.reviews = 0
  BY DEF NewEntry
<1>3. \A k \in EventKinds : pend[i][k] \in {"ready", "no"}
  BY DEF Init
<1> QED BY <1>1, <1>2, <1>3 DEF Heard

\* What an issue's mirror has heard of stays so, while nothing counts a rework or schedules
\* a review.
LEMMA HeardKept ==
  ASSUME NEW i \in Issues, Heard(i), mirror' = mirror, config' = config, reworks'[i] = reworks[i],
         Reviewing(i)' => Reviewing(i), Quiet(i) => Quiet(i)',
         "in_review" \in remote'[i].labels => "in_review" \in remote[i].labels,
         config.deps[i] = {} /\ (work'.pc # "idle" \/ results' # {})
           => work.pc # "idle" \/ results # {} \/ Quiet(i)'
  PROVE  Heard(i)'
<1>1. CASE reworks[i] <= mirror[i].reviews
  BY <1>1 DEF Heard
<1>2. CASE ~(reworks[i] <= mirror[i].reviews)
  <2>1. /\ ~Reviewing(i)'
        /\ "in_review" \notin mirror'[i].labels \cap remote'[i].labels \/ Quiet(i)'
        /\ config'.deps[i] = {} /\ (work'.pc # "idle" \/ results' # {}) => Quiet(i)'
    BY <1>2 DEF Heard
  <2> QED BY <2>1 DEF Heard
<1> QED BY <1>1, <1>2

\* A review is scheduled by an event, on the word of a mirror that is not stale.
LEMMA ScheduledReview ==
  ASSUME TypeOK, Labelled, NEW i \in Issues, NEW k \in EventKinds, ScheduleRun(i, k, "review")
  PROVE  "in_review" \in mirror[i].labels \cap remote[i].labels /\ ~Quiet(i)
<1>1. PICK judged \in Readings(mirror[i].labels), now \in Readings(remote[i].labels) :
        pend[i][k] = "ready" /\ Intent(judged) = "review" /\ ~Stale(now, judged)
  BY DEF ScheduleRun, Wanted, Claimed
<1>2. judged = "in_review"
  BY <1>1 DEF Intent
<1>3. now \in remote[i].labels /\ now # "none"
  BY DEF TypeOK, Entry, Labelled, Readings, Statuses
<1>4. judged \in mirror[i].labels
  BY <1>2 DEF Readings
<1> QED BY <1>1, <1>2, <1>3, <1>4 DEF Stale, Quiet

\* The one result at hand is digested: the issue it is of hears its own review.
LEMMA DigestHeard ==
  ASSUME TypeOK, JobInv, SoleInv, CountInv, NEW res \in results, DigestResult(res),
         config.deps[res.issue] = {} \/ OneLabel(mirror[res.issue])
  PROVE  Heard(res.issue)'
<1> DEFINE i == res.issue
<1>1. i \in Issues
  BY DEF TypeOK
<1>2. work.pc = "idle" /\ results' = {} /\ runJob[i] = "no"
  BY DEF SoleInv, DigestResult
<1>3. mirror' = mirror /\ config' = config /\ pend' = pend /\ runJob' = runJob /\ work' = work
  BY DEF DigestResult
<1>4. ~Reviewing(i)' /\ work'.pc = "idle" /\ results' = {}
  BY <1>2, <1>3 DEF Reviewing
<1>5. Quiet(i)' <=> Quiet(i)
  BY <1>3 DEF Quiet
<1>6. Heard(i)
  BY <1>1 DEF CountInv
<1>7. reworks'[i] <= mirror[i].reviews => Heard(i)'
  BY <1>3 DEF Heard
<1>8. "in_review" \notin mirror[i].labels \cap remote'[i].labels \/ Quiet(i) => Heard(i)'
  BY <1>3, <1>4, <1>5 DEF Heard
<1>9. Labelled
  BY DEF CountInv, Labelled
<1>10. CASE UNCHANGED <<remote, reworks>>
  BY <1>6, <1>7, <1>8, <1>10 DEF Heard
<1>11. ASSUME reworks' = reworks, NEW judged \in Readings(mirror[i].labels), judged \in remote[i].labels
       PROVE  Heard(i)'
  <2>1. judged \in mirror[i].labels
    BY <1>1 DEF Readings, CountInv
  <2>2. CASE config.deps[i] = {}
    BY <1>6, <1>7, <1>8, <1>11, <2>2 DEF Heard
  <2>3. CASE config.deps[i] # {}
    <3>1. "in_review" \in mirror[i].labels => judged = "in_review"
      BY <2>1, <2>3 DEF OneLabel
    <3> QED BY <1>6, <1>7, <1>8, <1>11, <2>1, <3>1 DEF Heard
  <2> QED BY <2>2, <2>3
<1>12. CASE res.intent = "review" /\ reworks' = reworks
  <2>1. Reviewing(i)
    BY <1>12 DEF Reviewing
  <2> QED BY <1>6, <1>7, <1>12, <2>1 DEF Heard
<1>13. CASE "in_review" \notin mirror[i].labels \cap remote'[i].labels
  BY <1>8, <1>13
<1> HIDE DEF i
<1> QED BY <1>9, <1>10, <1>11, <1>12, <1>13, DigestMoves DEF i

\* Every step keeps the count.
LEMMA CountStep == TypeOK /\ JobInv /\ SoleInv /\ CountInv /\ [Next]_vars => CountInv'
<1> SUFFICES ASSUME TypeOK, JobInv, SoleInv, CountInv, [Next]_vars, NEW i \in Issues
             PROVE  /\ remote'[i].labels # {} /\ mirror'[i].labels # {}
                    /\ reworks'[i] <= remote'[i].reviews
                    /\ config'.deps[i] = {} => \A k \in EventKinds : pend'[i][k] # "later"
                    /\ config'.deps[i] = {} \/ OneLabel(mirror'[i]) => Heard(i)'
  BY DEF CountInv
<1>0. /\ Labelled /\ remote[i].labels # {} /\ mirror[i].labels # {} /\ reworks[i] <= remote[i].reviews
      /\ remote[i].reviews \in Nat /\ mirror[i].reviews \in Nat /\ reworks[i] \in Nat
  BY DEF CountInv, Labelled, TypeOK, Entry
<1>1. config' = config /\ mirror'[i].labels # {}
  BY <1>0, OtherMoves
<1>2. config'.deps[i] = {} => \A k \in EventKinds : pend'[i][k] # "later"
  BY <1>1, EventMoves DEF CountInv
<1>3. CASE \E res \in results : DigestResult(res)
  <2>1. PICK res \in results : DigestResult(res)
    BY <1>3
  <2>2. mirror' = mirror /\ pend' = pend /\ runJob' = runJob /\ work' = work /\ results' \subseteq results
    BY <2>1 DEF DigestResult
  <2>3. Labelled' /\ remote'[i].labels # {}
    BY <1>0, <2>1, DigestMoves DEF Labelled
  <2>4. CASE i = res.issue
    <3>1. /\ reworks'[i] = reworks[i] \/ reworks'[i] = reworks[i] + 1
          /\ reworks'[i] = reworks[i] + 1 => remote'[i].reviews = remote[i].reviews + 1
          /\ remote'[i].reviews = remote[i].reviews \/ remote'[i].reviews = remote[i].reviews + 1
      BY <1>0, <2>1, <2>4, DigestMoves DEF TypeOK
    <3>2. reworks'[i] <= remote'[i].reviews
      BY <1>0, <3>1
    <3>3. config.deps[i] = {} \/ OneLabel(mirror[i]) => Heard(i)'
      BY <2>1, <2>4, DigestHeard
    <3> QED BY <1>1, <1>2, <2>2, <2>3, <3>2, <3>3
  <2>5. CASE i # res.issue
    <3>1. remote'[i] = remote[i] /\ reworks'[i] = reworks[i]
      BY <1>0, <2>1, <2>5, DigestMoves
    <3>2. /\ Reviewing(i)' => Reviewing(i)
          /\ Quiet(i) => Quiet(i)'
          /\ work'.pc # "idle" \/ results' # {} => work.pc # "idle" \/ results # {}
      BY <2>2 DEF Reviewing, Quiet
    <3>3. config.deps[i] = {} \/ OneLabel(mirror[i]) => Heard(i)
      BY DEF CountInv
    <3>4. Heard(i) => Heard(i)'
      BY <1>1, <2>2, <3>1, <3>2, HeardKept
    <3> QED BY <1>0, <1>1, <1>2, <2>2, <2>3, <3>1, <3>3, <3>4
  <2> QED BY <2>4, <2>5
<1>4. CASE ~(\E res \in results : DigestResult(res))
  <2>1. Tame(remote'[i], remote[i]) /\ reworks' = reworks
    BY <1>0, <1>4, StepTame, EventMoves DEF AllTame
  <2>2. remote'[i].labels # {} /\ reworks'[i] <= remote'[i].reviews
    BY <1>0, <2>1 DEF Tame
  <2>3. CASE Sync
    <3>1. mirror' = remote
      BY <2>3 DEF Sync
    <3>2. reworks'[i] <= mirror'[i].reviews
      BY <1>0, <2>1, <3>1
    <3> QED BY <1>1, <1>2, <2>2, <3>2 DEF Heard
  <2>4. CASE ~Sync
    <3>1. mirror' = mirror /\ (Quiet(i) => Quiet(i)')
      BY <2>4, EventMoves
    <3>2. config.deps[i] = {} \/ OneLabel(mirror[i]) => Heard(i)
      BY DEF CountInv
    <3>3. CASE \E k \in EventKinds : ScheduleRun(i, k, "review")
      <4>1. Heard(i) => reworks[i] <= mirror[i].reviews
        BY <1>0, <3>3, ScheduledReview DEF Heard
      <4>2. Heard(i) => Heard(i)'
        BY <2>1, <3>1, <4>1 DEF Heard
      <4> QED BY <1>1, <1>2, <2>2, <3>1, <3>2, <4>2
    <3>4. CASE ~(\E k \in EventKinds : ScheduleRun(i, k, "review"))
      <4>1. Reviewing(i)' => Reviewing(i)
        BY <3>4, ReviewMoves
      <4>2. ASSUME WorkGoes, config.deps[i] = {} PROVE Quiet(i)'
        <5>1. \A k \in EventKinds : pend[i][k] # "later" /\ pend[i][k] # "ready"
          BY <4>2 DEF CountInv, WorkGoes
        <5>2. \A k \in EventKinds : pend[i][k] \in {"no", "ready", "later"}
          BY DEF TypeOK
        <5> QED BY <3>1, <5>1, <5>2 DEF Quiet
      <4>3. config.deps[i] = {} /\ (work'.pc # "idle" \/ results' # {})
              => work.pc # "idle" \/ results # {} \/ Quiet(i)'
        BY <4>2, BusyMoves
      <4>4. Heard(i) => Heard(i)'
        BY <1>1, <2>1, <3>1, <4>1, <4>3, HeardKept DEF Tame
      <4> QED BY <1>1, <1>2, <2>2, <3>1, <3>2, <4>4
    <3> QED BY <3>3, <3>4
  <2> QED BY <2>3, <2>4
<1> QED BY <1>3, <1>4

----------------------------------------------------------------------------
(* Together *)

\* Every step keeps the invariant.
LEMMA IssueInvStep == IssueInv /\ [Next]_vars => IssueInv'
  BY TypeStep, SignedStep, MergedStep, OrderStep DEF IssueInv

\* The invariant of the lifecycle: what advance.py and the work lane rely on of each other.
THEOREM IssueInvAlways == Spec => []IssueInv
  BY IssueInit, IssueInvStep, PTL DEF Spec

\* The state of the lifecycle is what its declaration says.
THEOREM LifecycleTypes == Spec => []TypeOK
<1>1. IssueInv => TypeOK
  BY DEF IssueInv
<1> QED BY <1>1, IssueInvAlways, PTL

\* Nothing reads done that is not on the primary branch as it is then (close_issue_done).
THEOREM DoneOnlyMerged == Spec => DoneIsMerged
<1>1. IssueInv /\ [Next]_vars
        => [\A i \in Issues : "done" \in remote'[i].labels \ remote[i].labels
                                => branch[i] > 0 /\ merged[i] = branch[i]]_vars
  <2> SUFFICES ASSUME IssueInv, [Next]_vars, NEW i \in Issues,
                      "done" \in remote'[i].labels \ remote[i].labels
               PROVE  branch[i] > 0 /\ merged[i] = branch[i]
    OBVIOUS
  <2>1. SetDone /\ i = work.issue
    BY RemoteStep DEF IssueInv, RemoteKept, Kept
  <2> QED BY <2>1 DEF SetDone, IssueInv, MergedInv
<1> QED BY <1>1, IssueInvAlways, PTL DEF Spec, DoneIsMerged

\* Where merges are gated, nothing reaches the primary branch that nobody has signed for.
THEOREM MergesAreSigned == Spec => MergeAuthorised
<1>1. IssueInv /\ [Next]_vars
        => [\A i \in Issues : merged'[i] # merged[i] /\ config.gated => i \in signed]_vars
  <2> SUFFICES ASSUME IssueInv, [Next]_vars, NEW i \in Issues, merged'[i] # merged[i], config.gated
               PROVE  i \in signed
    OBVIOUS
  <2>1. Merge
    BY GitMoves DEF IssueInv
  <2>2. work.issue \in signed
    BY <2>1 DEF Merge, IssueInv, SignedInv
  <2>3. i = work.issue
    BY <2>1 DEF Merge, IssueInv, TypeOK
  <2> QED BY <2>2, <2>3
<1> QED BY <1>1, IssueInvAlways, PTL DEF Spec, MergeAuthorised

\* What an issue depends on is on the primary branch when an agent starts to implement it.
THEOREM DependenciesComeFirst == Spec => DependenciesFirst
<1>1. IssueInv /\ [Next]_vars
        => [\A i \in Issues : work.pc # "agent" /\ work'.pc = "agent" /\ work'.issue = i
                                /\ work'.kind = "implement"
                                => \A d \in config.deps[i] : merged[d] > 0]_vars
  <2> SUFFICES ASSUME IssueInv, [Next]_vars, work.pc # "agent", work'.pc = "agent",
                      work'.issue \in Issues, work'.kind = "implement"
               PROVE  \A d \in config.deps[work'.issue] : merged[d] > 0
    OBVIOUS
  <2>1. work'.issue = work'.job /\ runJob[work'.job] = "implement"
    BY WorkMoves DEF IssueInv
  <2> QED BY <2>1 DEF IssueInv, OrderInv, DepsMerged
<1> QED BY <1>1, IssueInvAlways, PTL DEF Spec, DependenciesFirst

\* A rework is decided on a count that has every earlier one: reviews send an issue back
\* fewer than max_attempts times, late as the mirror may be (process_work_result).
THEOREM ReworksAreBounded == Spec => ReworksBounded
<1> DEFINE Inv == IssueInv /\ SoleInv /\ CountInv
<1>1. Spec => []Inv
  <2>1. Init => Inv
    BY IssueInit, SoleInit, CountInit
  <2>2. Inv /\ [Next]_vars => Inv'
    BY IssueInvStep, SoleStep, CountStep DEF IssueInv
  <2> HIDE DEF Inv
  <2> QED BY <2>1, <2>2, PTL DEF Spec
<1>2. Inv /\ [Next]_vars
        => [\A i \in Issues :
              reworks'[i] # reworks[i] /\ (config.deps[i] = {} \/ OneLabel(mirror[i]))
                => reworks'[i] < MaxReviews]_vars
  <2> SUFFICES ASSUME IssueInv, SoleInv, CountInv, [Next]_vars, NEW i \in Issues,
                      reworks'[i] # reworks[i], config.deps[i] = {} \/ OneLabel(mirror[i])
               PROVE  reworks'[i] < MaxReviews
    OBVIOUS
  <2>0. /\ TypeOK /\ JobInv /\ Labelled
        /\ mirror[i].reviews \in Nat /\ reworks \in [Issues -> Nat] /\ MaxReviews \in Nat
    BY LifecycleAssumption DEF IssueInv, CountInv, Labelled, TypeOK, Entry
  <2>1. PICK res \in results : DigestResult(res)
    BY <2>0, EventMoves
  <2>2. i = res.issue
    BY <2>0, <2>1, DigestMoves
  <2>3. /\ res.intent = "review" /\ mirror[i].reviews + 1 < MaxReviews
        /\ reworks'[i] = reworks[i] + 1
    BY <2>0, <2>1, <2>2, DigestMoves
  <2>4. Reviewing(i)
    BY <2>1, <2>2, <2>3 DEF Reviewing
  <2>5. reworks[i] <= mirror[i].reviews
    BY <2>4 DEF CountInv, Heard
  <2> QED BY <2>0, <2>3, <2>5
<1> HIDE DEF Inv
<1> QED BY <1>1, <1>2, PTL DEF Spec, ReworksBounded

----------------------------------------------------------------------------
(* The lifecycle implements Delivery *)

\* Issue i has been handed to an agent at some time: something says so.
Touched(i) ==
  \/ "in_review" \in remote[i].labels \cup mirror[i].labels
  \/ runJob[i] = "review"
  \/ work.pc = "agent" /\ work.issue = i
  \/ \E res \in results : res.issue = i

\* Such an issue has a branch, and nothing has a branch whose dependencies are not merged:
\* a review, which asks nobody about dependencies, finds the branch an implementation made.
BuiltInv ==
  /\ \A i \in Issues : Touched(i) => branch[i] > 0
  /\ \A i \in Issues : branch[i] > 0 => DepsMerged(i)

\* The issue an agent builds.
Building == {i \in Issues : work.pc = "agent" /\ work.issue = i /\ work.kind = "implement"}

\* The run that starts, and the one that ends with what its agent wrote.
Starts(i) ==
  /\ work.pc = "go" /\ runJob[i] # "no"
  /\ work'.pc = "agent" /\ work'.issue = i /\ work'.kind = runJob[i]
  /\ branch' = [branch EXCEPT ![i] = IF @ = 0 THEN 1 ELSE @]
  /\ results' = results

Stops(i) ==
  /\ work.pc = "agent" /\ work.issue = i /\ work'.pc # "agent"
  /\ \/ branch' = branch
     \/ work.kind = "implement" /\ branch' = [branch EXCEPT ![i] = @ + 1]
  /\ \A res \in results' : res \in results \/ res.issue = i

\* Any other step leaves the agent at what it does.
Undisturbed ==
  /\ branch' = branch
  /\ work'.pc = "agent" <=> work.pc = "agent"
  /\ work.pc = "agent" => work'.issue = work.issue /\ work'.kind = work.kind
  /\ results' \subseteq results

\* The start of a run, unless it is dropped as stale.
LEMMA ClaimStarts ==
  ASSUME TypeOK, NEW i \in Issues, ClaimRun(i)
  PROVE  Starts(i) \/ Undisturbed
<1>1. work.pc = "go" /\ runJob[i] # "no" /\ results' = results
  BY DEF ClaimRun, control
<1>2. CASE work' = Idle /\ UNCHANGED branch
  BY <1>1, <1>2, IdleIsJob DEF Undisturbed
<1>3. CASE /\ work' = [Idle EXCEPT !.pc = "agent", !.issue = i, !.job = i, !.kind = runJob[i]]
           /\ branch' = [branch EXCEPT ![i] = IF @ = 0 THEN 1 ELSE @]
  <2>1. work'.pc = "agent" /\ work'.issue = i /\ work'.kind = runJob[i]
    BY <1>3 DEF Idle
  <2> QED BY <1>1, <1>3, <2>1 DEF Starts
<1> QED BY <1>2, <1>3 DEF ClaimRun

\* A step starts a run, stops one, or leaves the agent alone.
LEMMA AgentMoves ==
  ASSUME TypeOK, JobInv, [Next]_vars
  PROVE  (\E i \in Issues : Starts(i) \/ Stops(i)) \/ Undisturbed
<1>0. work \in Job
  BY DEF TypeOK
<1>1. ASSUME NEW i \in Issues, RunEnds(i) PROVE Stops(i)
  <2>1. work'.pc # "agent"
    BY <1>1, IdleIsJob DEF RunEnds
  <2>2. PICK report \in Reports(work.kind) :
          results' = results \cup {[issue |-> i, intent |-> work.kind, report |-> report]}
    BY <1>1 DEF RunEnds
  <2> QED BY <1>1, <2>1, <2>2 DEF RunEnds, Commits, Stops
<1>2. ASSUME NEW i \in Issues, RunFails(i) PROVE Stops(i)
  BY <1>2, IdleIsJob DEF RunFails, Commits, Stops, control
<1>3. CASE Crash
  <2>1. work'.pc # "agent" /\ branch' = branch /\ results' = results
    BY <1>3, IdleIsJob DEF Crash, git, control
  <2>2. work.pc = "agent" => work.issue \in Issues
    BY DEF JobInv
  <2> QED BY <2>1, <2>2 DEF Stops, Undisturbed
<1>4. CASE Sync
  <2>1. \E x : work' = [work EXCEPT !.cut = x]
    BY <1>4 DEF Sync
  <2>2. work'.pc = work.pc /\ work'.issue = work.issue /\ work'.kind = work.kind
    BY <1>0, <2>1 DEF Job
  <2> QED BY <1>4, <2>2 DEF Sync, git, Undisturbed
<1>5. CASE \/ People \/ (\E res \in results : DigestResult(res)) \/ UNCHANGED vars
           \/ (\E i \in Issues, k \in EventKinds :
                  \/ ResolveGate(i, k) \/ Ignore(i, k) \/ ParkForApproval(i, k)
                  \/ BlockOnCancelled(i, k) \/ HoldOnDeps(i, k) \/ PollPasses(i, k)
                  \/ \E intent \in {"implement", "review"} : ScheduleRun(i, k, intent))
  <2>1. work' = work /\ branch' = branch /\ results' \subseteq results
    BY <1>5 DEF People, Reacts, Says, Cancels, DigestResult, vars, git, control, ResolveGate, Ignore,
         ParkForApproval, BlockOnCancelled, HoldOnDeps, PollPasses, ScheduleRun
  <2> QED BY <2>1 DEF Undisturbed
<1>6. CASE WorkGoes \/ NothingToClaim
  BY <1>6, IdleIsJob DEF WorkGoes, NothingToClaim, Idle, git, control, Undisturbed
<1>7. ASSUME NEW i \in Issues, ClaimGate(i) PROVE Undisturbed
  <2>1. work.pc = "go" /\ work'.pc # "agent" /\ branch' = branch /\ results' = results
    BY <1>7 DEF ClaimGate, Idle, git, control
  <2> QED BY <2>1 DEF Undisturbed
<1>8. CASE Prepared \/ Unmergeable \/ Merge \/ SetDone
  <2>1. \E pc \in Stages \cup {"next"} : work' = [work EXCEPT !.pc = pc]
    BY <1>8 DEF Prepared, Unmergeable, Merge, SetDone, Step, Stages
  <2>2. work'.pc # "agent" /\ work.pc # "agent"
    BY <1>0, <1>8, <2>1 DEF Job, Stages, Prepared, Unmergeable, Merge, SetDone
  <2>3. branch' = branch /\ results' = results
    BY <1>8 DEF Prepared, Unmergeable, Merge, SetDone, control, git
  <2> QED BY <2>2, <2>3 DEF Undisturbed
<1>9. CASE Close \/ NextSibling
  <2>1. work'.pc # "agent" /\ work.pc # "agent"
    BY <1>0, <1>9, IdleIsJob DEF Close, NextSibling, Job
  <2>2. branch' = branch /\ results' = results
    BY <1>9 DEF Close, NextSibling, control, git
  <2> QED BY <2>1, <2>2 DEF Undisturbed
<1> QED BY <1>1, <1>2, <1>3, <1>4, <1>5, <1>6, <1>7, <1>8, <1>9, ClaimStarts DEF Next, Control, Work

\* Nothing has a branch yet.
LEMMA BuiltInit == Init => BuiltInv
<1> SUFFICES ASSUME Init PROVE BuiltInv
  OBVIOUS
<1>1. \A i \in Issues : branch[i] = 0 /\ ~Touched(i)
  BY IdleIsJob DEF Init, NewEntry, Touched
<1> QED BY <1>1 DEF BuiltInv

\* A branch stays.
LEMMA BranchStays ==
  ASSUME TypeOK, JobInv, [Next]_vars, NEW j \in Issues, branch[j] > 0
  PROVE  branch'[j] > 0
<1>0. branch \in [Issues -> Nat]
  BY DEF TypeOK
<1>1. ASSUME NEW i \in Issues, Starts(i) PROVE branch'[j] > 0
  BY <1>0, <1>1 DEF Starts
<1>2. ASSUME NEW i \in Issues, Stops(i) PROVE branch'[j] > 0
  BY <1>0, <1>2 DEF Stops
<1>3. Undisturbed => branch'[j] > 0
  BY DEF Undisturbed
<1> QED BY <1>1, <1>2, <1>3, AgentMoves

\* An issue is handed to an agent by a run that starts, or something said so before.
LEMMA TouchedMoves ==
  ASSUME TypeOK, JobInv, Labelled, [Next]_vars, NEW j \in Issues, Touched(j)'
  PROVE  Touched(j) \/ Starts(j)
<1>1. ASSUME "in_review" \in remote'[j].labels PROVE Touched(j)
  <2>1. CASE AllTame
    BY <1>1, <2>1 DEF AllTame, Tame, Touched
  <2>2. ASSUME NEW res \in results, DigestResult(res) PROVE Touched(j)
    <3>1. CASE j = res.issue
      BY <3>1 DEF Touched
    <3>2. CASE j # res.issue
      BY <1>1, <2>2, <3>2, DigestMoves DEF Touched
    <3> QED BY <3>1, <3>2
  <2> QED BY <2>1, <2>2, StepTame
<1>2. ASSUME "in_review" \in mirror'[j].labels PROVE Touched(j)
  BY <1>2, OtherMoves DEF Touched
<1>3. ASSUME runJob'[j] = "review" PROVE Touched(j)
  <2>1. Reviewing(j) => Touched(j)
    BY DEF Reviewing, Touched
  <2>2. ASSUME NEW k \in EventKinds, ScheduleRun(j, k, "review") PROVE Touched(j)
    <3>1. PICK judged \in Readings(mirror[j].labels) : Intent(judged) = "review"
      BY <2>2 DEF ScheduleRun, Wanted
    <3>2. judged = "in_review"
      BY <3>1 DEF Intent
    <3>3. judged \in mirror[j].labels
      BY <3>1, <3>2 DEF Readings
    <3> QED BY <3>2, <3>3 DEF Touched
  <2>3. Reviewing(j)'
    BY <1>3 DEF Reviewing
  <2> QED BY <2>1, <2>2, <2>3, ReviewMoves
<1>4. ASSUME work'.pc = "agent", work'.issue = j PROVE Touched(j) \/ Starts(j)
  BY <1>4, AgentMoves DEF Starts, Stops, Undisturbed, Touched
<1>5. ASSUME NEW res \in results', res.issue = j PROVE Touched(j)
  BY <1>5, AgentMoves DEF Starts, Stops, Undisturbed, Touched
<1> QED BY <1>1, <1>2, <1>3, <1>4, <1>5 DEF Touched

\* Every step keeps branches behind what they depend on.
LEMMA BuiltStep ==
  IssueInv /\ Labelled /\ BuiltInv /\ [Next]_vars => BuiltInv'
<1> SUFFICES ASSUME IssueInv, Labelled, BuiltInv, [Next]_vars PROVE BuiltInv'
  OBVIOUS
<1>0. TypeOK /\ JobInv /\ OrderInv /\ branch \in [Issues -> Nat]
  BY DEF IssueInv, TypeOK
<1>1. ASSUME NEW j \in Issues, Touched(j)' PROVE branch'[j] > 0
  <2>1. Starts(j) => branch'[j] > 0
    BY <1>0 DEF Starts
  <2>2. Touched(j) => branch'[j] > 0
    BY <1>0, BranchStays DEF BuiltInv
  <2> QED BY <1>0, <1>1, <2>1, <2>2, TouchedMoves
<1>2. ASSUME NEW j \in Issues, branch'[j] > 0 PROVE DepsMerged(j)
  <2>1. CASE branch[j] > 0
    BY <2>1 DEF BuiltInv
  <2>2. ASSUME branch[j] = 0, NEW i \in Issues, Starts(i) PROVE DepsMerged(j)
    <3>1. i = j
      BY <1>0, <1>2, <2>2 DEF Starts
    <3>2. runJob[j] # "review"
      BY <2>2 DEF BuiltInv, Touched
    <3>3. runJob[j] = "implement"
      BY <1>0, <2>2, <3>1, <3>2 DEF Starts, TypeOK
    <3> QED BY <1>0, <3>3 DEF OrderInv
  <2>3. ASSUME branch[j] = 0, NEW i \in Issues, Stops(i) PROVE FALSE
    <3>1. branch[i] > 0
      BY <2>3 DEF BuiltInv, Touched, Stops
    <3> QED BY <1>0, <1>2, <2>3, <3>1 DEF Stops
  <2>4. ASSUME branch[j] = 0, Undisturbed PROVE FALSE
    BY <1>2, <2>4 DEF Undisturbed
  <2>5. branch[j] \in Nat
    BY <1>0
  <2> QED BY <1>0, <2>1, <2>2, <2>3, <2>4, <2>5, AgentMoves
<1>3. ASSUME NEW j \in Issues, DepsMerged(j) PROVE \A d \in config'.deps[j] : merged'[d] > 0
  <2>1. config' = config /\ config.deps \in [Issues -> SUBSET Issues]
    BY <1>0, OtherMoves, LifecycleAssumption DEF TypeOK
  <2> QED BY <1>0, <1>3, <2>1, MergedStays DEF DepsMerged
<1> QED BY <1>1, <1>2, <1>3 DEF BuiltInv, DepsMerged

\* The issues that read done.
Done == {i \in Issues : "done" \in remote[i].labels}

\* A step writes one entry of the tracker at most.
LEMMA OneEntry ==
  ASSUME TypeOK, JobInv, [Next]_vars
  PROVE  remote' = remote \/ \E i \in Issues : \A j \in Issues \ {i} : remote'[j] = remote[j]
<1> DEFINE One == \E i \in Issues : \A j \in Issues \ {i} : remote'[j] = remote[j]
<1> SUFFICES remote' = remote \/ One
  OBVIOUS
<1>0. remote \in [Issues -> Entry] /\ (work.pc \in Stages => work.issue \in Issues)
  BY DEF TypeOK, JobInv
<1>1. ASSUME NEW i \in Issues, NEW e, remote' = [remote EXCEPT ![i] = e] PROVE One
  BY <1>0, <1>1
<1>2. ASSUME NEW i \in Issues, Cancels(i) \/ (\E w \in Words : Says(i, w))
                                \/ (\E g \in GateKinds, s \in Signals : Reacts(i, g, s))
      PROVE  One
  BY <1>0, <1>2 DEF Cancels, Says, Reacts
<1>3. ASSUME NEW res \in results, DigestResult(res) PROVE remote' = remote \/ One
  BY <1>1, <1>3, DigestApplies DEF Apply
<1>4. ASSUME NEW i \in Issues, NEW k \in EventKinds, ResolveGate(i, k) PROVE remote' = remote \/ One
  BY <1>1, <1>4 DEF ResolveGate, Apply
<1>5. ASSUME NEW i \in Issues, NEW k \in EventKinds, ParkForApproval(i, k) \/ BlockOnCancelled(i, k)
      PROVE  One
  BY <1>0, <1>5 DEF ParkForApproval, BlockOnCancelled
<1>6. CASE Prepared
  BY <1>0, <1>6 DEF Prepared, Stages
<1>7. CASE Unmergeable \/ SetDone \/ Close
  BY <1>0, <1>7 DEF Unmergeable, SetDone, Close, Stages
<1>8. \/ Sync \/ WorkGoes \/ NothingToClaim \/ Merge \/ NextSibling \/ Crash \/ UNCHANGED vars
      \/ (\E i \in Issues : ClaimRun(i) \/ RunEnds(i) \/ RunFails(i) \/ ClaimGate(i))
      \/ (\E i \in Issues, k \in EventKinds : Ignore(i, k) \/ HoldOnDeps(i, k) \/ PollPasses(i, k)
            \/ \E intent \in {"implement", "review"} : ScheduleRun(i, k, intent))
      => remote' = remote
  BY DEF Sync, WorkGoes, NothingToClaim, Merge, NextSibling, Crash, vars, ClaimRun, RunEnds, RunFails,
         ClaimGate, Ignore, HoldOnDeps, PollPasses, ScheduleRun
<1> HIDE DEF One
<1>9. CASE People
  BY <1>2, <1>9 DEF People
<1>10. CASE Control
  BY <1>3, <1>4, <1>5, <1>8, <1>10 DEF Control
<1>11. CASE Work \/ Crash \/ UNCHANGED vars
  BY <1>6, <1>7, <1>8, <1>11 DEF Work
<1> QED BY <1>9, <1>10, <1>11 DEF Next

\* So one issue at most comes to read done, by SetDone, or no longer does.
LEMMA DoneMoves ==
  ASSUME TypeOK, JobInv, [Next]_vars
  PROVE  \/ Done' = Done
         \/ \E i \in Done : Done' = Done \ {i}
         \/ SetDone /\ Done' = Done \cup {work.issue}
<1>1. \A i \in Issues : "done" \in remote'[i].labels
                          => "done" \in remote[i].labels \/ (SetDone /\ i = work.issue)
  BY RemoteStep DEF RemoteKept, Kept
<1>2. CASE remote' = remote
  BY <1>2 DEF Done
<1>3. ASSUME NEW i \in Issues, \A j \in Issues \ {i} : remote'[j] = remote[j]
      PROVE  Done' = Done \/ Done' = Done \ {i} \/ (SetDone /\ i = work.issue /\ Done' = Done \cup {i})
  <2>1. Done' \subseteq Done \cup {i} /\ Done \subseteq Done' \cup {i}
    BY <1>3 DEF Done
  <2>2. i \in Done' => i \in Done \/ (SetDone /\ i = work.issue)
    BY <1>1 DEF Done
  <2> QED BY <2>1, <2>2
<1> QED BY <1>2, <1>3, OneEntry

\* People sign, or leave what Delivery speaks of alone.
LEMMA PeopleMoves ==
  ASSUME TypeOK, JobInv, People
  PROVE  /\ signed' = signed \/ \E i \in Issues : signed' = signed \cup {i}
         /\ Done' = Done /\ UNCHANGED <<config, work, git>>
<1>0. remote \in [Issues -> Entry]
  BY DEF TypeOK
<1>1. ASSUME NEW i \in Issues, Cancels(i) PROVE Done' = Done
  <2>1. "done" \notin remote[i].labels
    BY <1>1 DEF Cancels
  <2>2. \A j \in Issues : "done" \in remote'[j].labels <=> "done" \in remote[j].labels
    BY <1>0, <1>1, <2>1 DEF Cancels, Entry
  <2> QED BY <2>2 DEF Done
<1>2. ASSUME NEW i \in Issues, NEW w \in Words, Says(i, w) PROVE Done' = Done
  <2>1. \A j \in Issues : remote'[j].labels = remote[j].labels
    BY <1>0, <1>2 DEF Says, Entry
  <2> QED BY <2>1 DEF Done
<1>3. ASSUME NEW i \in Issues, NEW g \in GateKinds, NEW s \in Signals, Reacts(i, g, s)
      PROVE  Done' = Done
  <2>1. \A j \in Issues : remote'[j].labels = remote[j].labels
    BY <1>0, <1>3 DEF Reacts, Entry
  <2> QED BY <2>1 DEF Done
<1>4. /\ signed' = signed \/ \E i \in Issues : signed' = signed \cup {i}
      /\ UNCHANGED <<config, work, git>>
  BY DEF People, Cancels, Says, Reacts, history, git
<1> QED BY <1>1, <1>2, <1>3, <1>4 DEF People

\* A step of the program changes one of: the agent, the primary branch, the tracker.
LEMMA OneAspect ==
  ASSUME TypeOK, JobInv, [Next]_vars, ~People
  PROVE  /\ signed' = signed
         /\ \/ remote' = remote /\ merged' = merged
            \/ Merge /\ remote' = remote
            \/ Undisturbed /\ merged' = merged
<1>0. work \in Job
  BY DEF TypeOK
<1>1. ASSUME NEW i \in Issues, ClaimRun(i) \/ RunEnds(i) \/ RunFails(i) \/ ClaimGate(i)
      PROVE  remote' = remote /\ merged' = merged /\ signed' = signed
  BY <1>1 DEF ClaimRun, RunEnds, RunFails, ClaimGate, git, history
<1>2. CASE Sync \/ WorkGoes \/ NothingToClaim \/ NextSibling \/ Crash \/ UNCHANGED vars
  BY <1>2 DEF Sync, WorkGoes, NothingToClaim, NextSibling, Crash, vars, git, history
<1>3. CASE Merge
  BY <1>3 DEF Merge, history
<1>4. ASSUME NEW i \in Issues, NEW k \in EventKinds,
             \/ ResolveGate(i, k) \/ Ignore(i, k) \/ ParkForApproval(i, k)
             \/ BlockOnCancelled(i, k) \/ HoldOnDeps(i, k) \/ PollPasses(i, k)
             \/ \E intent \in {"implement", "review"} : ScheduleRun(i, k, intent)
      PROVE  Undisturbed /\ merged' = merged /\ signed' = signed
  BY <1>4 DEF ResolveGate, Ignore, ParkForApproval, BlockOnCancelled, HoldOnDeps, PollPasses, ScheduleRun,
       git, history, Undisturbed
<1>5. ASSUME NEW res \in results, DigestResult(res)
      PROVE  Undisturbed /\ merged' = merged /\ signed' = signed
  BY <1>5 DEF DigestResult, git, Undisturbed
<1>6. CASE Prepared \/ Unmergeable \/ SetDone \/ Close
  <2>1. work'.pc # "agent" /\ work.pc # "agent"
    BY <1>0, <1>6 DEF Job, Prepared, Unmergeable, SetDone, Close, Step
  <2>2. branch' = branch /\ results' = results /\ merged' = merged /\ signed' = signed
    BY <1>6 DEF Prepared, Unmergeable, SetDone, Close, git, control, history
  <2> QED BY <2>1, <2>2 DEF Undisturbed
<1> QED BY <1>1, <1>2, <1>3, <1>4, <1>5, <1>6 DEF Next, Control, Work

\* The lifecycle starts as Delivery does.
LEMMA RefineInit == Init => Abstract!Init
<1> SUFFICES ASSUME Init PROVE Abstract!Init
  OBVIOUS
<1>1. config.gated \in BOOLEAN /\ config.deps \in [Issues -> SUBSET Issues]
  BY LifecycleAssumption DEF Init
<1>2. Building = {} /\ Done = {}
  BY IdleIsJob DEF Init, NewEntry, Building, Done
<1> QED BY <1>1, <1>2 DEF Init, Building, Done, Abstract!Init

\* Each of its steps is one of Delivery's, or none that Delivery can see.
LEMMA RefineStep ==
  IssueInv /\ BuiltInv /\ [Next]_vars => [Abstract!Next]_Abstract!vars
<1> SUFFICES ASSUME IssueInv, BuiltInv, [Next]_vars PROVE [Abstract!Next]_Abstract!vars
  OBVIOUS
<1>0. /\ TypeOK /\ JobInv /\ branch \in [Issues -> Nat]
      /\ config' = config /\ Building \subseteq Issues
  BY OtherMoves DEF IssueInv, TypeOK, Building
<1>1. work.pc # "agent" => Building = {}
  BY DEF Building
<1> DEFINE rules == [gated |-> config.gated, deps |-> config.deps]
<1>2. rules' = rules /\ rules.gated = config.gated /\ rules.deps = config.deps
  BY <1>0
<1>3. CASE People
  <2>1. /\ signed' = signed \/ \E i \in Issues : signed' = signed \cup {i}
        /\ Done' = Done /\ UNCHANGED <<work, git>>
    BY <1>0, <1>3, PeopleMoves
  <2>2. Building' = Building /\ branch' = branch /\ merged' = merged
    BY <2>1 DEF Building, git
  <2> QED BY <1>2, <2>1, <2>2 DEF Done, Building, Abstract!Next, Abstract!Sign, Abstract!vars
<1>4. CASE Undisturbed /\ merged' = merged /\ signed' = signed
  <2>1. Building' = Building /\ branch' = branch
    BY <1>4 DEF Undisturbed, Building
  <2>2. CASE Done' = Done
    BY <1>2, <1>4, <2>1, <2>2 DEF Done, Building, Abstract!vars
  <2>3. ASSUME NEW i \in Done, Done' = Done \ {i} PROVE Abstract!Next
    <3>1. i \in Issues
      BY DEF Done
    <3>2. Abstract!Reopen(i)
      BY <1>2, <1>4, <2>1, <2>3 DEF Done, Building, Abstract!Reopen
    <3> QED BY <3>1, <3>2 DEF Abstract!Next
  <2>4. CASE SetDone /\ Done' = Done \cup {work.issue}
    <3>1. work.pc = "done" /\ work.issue \in Issues
      BY <1>0, <2>4 DEF SetDone, JobInv, Stages
    <3>2. branch[work.issue] > 0 /\ merged[work.issue] = branch[work.issue]
      BY <3>1 DEF IssueInv, MergedInv
    <3>3. Building = {}
      BY <1>1, <3>1
    <3>4. PICK i \in Issues : i = work.issue
      BY <3>1
    <3>5. Abstract!Finish(i)
      BY <1>2, <1>4, <2>1, <2>4, <3>2, <3>3, <3>4 DEF Done, Building, Abstract!Finish, Abstract!Delivered
    <3> QED BY <3>5 DEF Abstract!Next
  <2> QED BY <1>0, <2>2, <2>3, <2>4, DoneMoves
<1>5. CASE Merge /\ remote' = remote /\ signed' = signed
  <2>1. work.pc = "merge" /\ work.issue \in Issues /\ branch[work.issue] > 0
    BY <1>0, <1>5 DEF Merge, JobInv, Stages
  <2>2. merged' = [merged EXCEPT ![work.issue] = branch[work.issue]] /\ branch' = branch
    BY <1>5 DEF Merge
  <2>3. config.gated => work.issue \in signed
    BY <2>1 DEF IssueInv, SignedInv
  <2>4. Building = {} /\ Building' = {} /\ Done' = Done
    <3>1. work'.pc # "agent"
      BY <1>0, <1>5 DEF Merge, Step, TypeOK, Job
    <3> QED BY <1>1, <1>5, <2>1, <3>1 DEF Building, Done
  <2>5. Abstract!Merge(work.issue)
    BY <1>2, <1>5, <2>1, <2>2, <2>3, <2>4 DEF Done, Building, Abstract!Merge
  <2> QED BY <2>1, <2>5 DEF Abstract!Next
<1>6. ASSUME NEW i \in Issues, Starts(i), remote' = remote, merged' = merged, signed' = signed
      PROVE  Abstract!Next \/ UNCHANGED Abstract!vars
  <2>1. Building = {} /\ Done' = Done /\ runJob[i] \in {"implement", "review"}
    BY <1>0, <1>1, <1>6 DEF Starts, Done, TypeOK
  <2>2. CASE runJob[i] = "review"
    <3>1. branch[i] > 0
      BY <2>2 DEF BuiltInv, Touched
    <3>2. branch' = branch
      BY <1>0, <1>6, <3>1 DEF Starts
    <3>3. Building' = {}
      BY <1>6, <2>2 DEF Starts, Building
    <3> QED BY <1>2, <1>6, <2>1, <3>2, <3>3 DEF Done, Building, Abstract!vars
  <2>3. CASE runJob[i] = "implement"
    <3>1. DepsMerged(i)
      BY <2>3 DEF IssueInv, OrderInv
    <3>2. Building' = {i}
      BY <1>6, <2>3 DEF Starts, Building
    <3>3. Abstract!Begin(i)
      BY <1>2, <1>6, <2>1, <3>1, <3>2 DEF Starts, Done, Building, DepsMerged, Abstract!Begin,
         Abstract!Buildable, Abstract!Delivered
    <3> QED BY <3>3 DEF Abstract!Next
  <2> QED BY <2>1, <2>2, <2>3
<1>7. ASSUME NEW i \in Issues, Stops(i), remote' = remote, merged' = merged, signed' = signed
      PROVE  Abstract!Next \/ UNCHANGED Abstract!vars
  <2>1. Building' = {} /\ Done' = Done
    BY <1>7 DEF Stops, Building, Done
  <2>2. CASE work.kind # "implement"
    <3>1. Building = {} /\ branch' = branch
      BY <1>7, <2>2 DEF Stops, Building
    <3> QED BY <1>2, <1>7, <2>1, <3>1 DEF Done, Building, Abstract!vars
  <2>3. CASE work.kind = "implement"
    <3>1. Building = {i}
      BY <1>7, <2>3 DEF Stops, Building
    <3>2. Abstract!End(i)
      BY <1>2, <1>7, <2>1, <3>1 DEF Stops, Done, Building, Abstract!End
    <3> QED BY <3>2 DEF Abstract!Next
  <2> QED BY <2>2, <2>3
<1>8. CASE ~People
  <2>1. signed' = signed /\ (\/ remote' = remote /\ merged' = merged
                             \/ Merge /\ remote' = remote
                             \/ Undisturbed /\ merged' = merged)
    BY <1>0, <1>8, OneAspect
  <2>2. CASE remote' = remote /\ merged' = merged
    BY <1>0, <1>4, <1>6, <1>7, <2>1, <2>2, AgentMoves
  <2> QED BY <1>4, <1>5, <2>1, <2>2
<1> QED BY <1>3, <1>8

\* The lifecycle is Delivery, as whoever looks at the primary branch sees it.
THEOREM DeliveryImplemented == Spec => ImplementsDelivery
<1> DEFINE Inv == IssueInv /\ SoleInv /\ CountInv /\ BuiltInv
<1>1. Init => Inv
  BY IssueInit, SoleInit, CountInit, BuiltInit
<1>2. Inv => Labelled
  BY DEF CountInv, Labelled
<1>3. Inv /\ [Next]_vars => Inv'
  BY <1>2, IssueInvStep, SoleStep, CountStep, BuiltStep DEF IssueInv
<1>4. Inv /\ [Next]_vars => [Abstract!Next]_Abstract!vars
  BY RefineStep
<1> HIDE DEF Inv
<1> QED BY <1>1, <1>3, <1>4, RefineInit, PTL DEF Spec, ImplementsDelivery, Abstract!Spec

\* What Delivery's promise rests on: a branch stands on what its issue depends on.
Promised ==
  /\ \A i \in Done : merged[i] > 0
  /\ \A i \in Issues : merged[i] > 0 => DepsMerged(i) /\ (config.gated => i \in signed)

PromiseInv ==
  /\ config.deps \in [Issues -> SUBSET Issues]
  /\ branch \in [Issues -> Nat] /\ merged \in [Issues -> Nat]
  /\ \A i \in Issues : branch[i] > 0 => DepsMerged(i)
  /\ \A i \in Building : branch[i] > 0
  /\ Promised

\* The promise, in the terms of the lifecycle.
LEMMA PromiseIs == Abstract!Promise <=> Promised
  BY DEF Abstract!Promise, Abstract!Delivered, Abstract!Buildable, Promised, DepsMerged, Done

\* What an issue depends on stays merged when merges only add.
LEMMA DepsStay ==
  ASSUME PromiseInv, config'.deps = config.deps,
         \A i \in Issues : merged[i] > 0 => merged'[i] > 0,
         NEW i \in Issues, DepsMerged(i)
  PROVE  DepsMerged(i)'
  BY DEF PromiseInv, DepsMerged

\* Each of Delivery's steps keeps what its promise rests on.
LEMMA PromiseStep == PromiseInv /\ [Abstract!Next]_Abstract!vars => PromiseInv'
<1> SUFFICES ASSUME PromiseInv, [Abstract!Next]_Abstract!vars PROVE PromiseInv'
  OBVIOUS
<1> DEFINE rules == [gated |-> config.gated, deps |-> config.deps]
<1>0. /\ branch \in [Issues -> Nat] /\ merged \in [Issues -> Nat]
      /\ Building \subseteq Issues /\ Done \subseteq Issues
  BY DEF PromiseInv, Building, Done
<1>1. rules' = rules
  BY DEF Abstract!Next, Abstract!vars, Abstract!Sign, Abstract!Begin, Abstract!End, Abstract!Merge,
     Abstract!Finish, Abstract!Reopen
<1>2. config'.gated = config.gated /\ config'.deps = config.deps
  BY <1>1
<1>3. ASSUME branch' = branch, merged' = merged, Building' = Building, signed \subseteq signed',
             \A i \in Done' : merged[i] > 0
      PROVE  PromiseInv'
  <2>1. \A i \in Issues : DepsMerged(i) => DepsMerged(i)'
    BY <1>2, <1>3, DepsStay
  <2>2. Promised'
    BY <1>2, <1>3, <2>1 DEF PromiseInv, Promised
  <2> QED BY <1>0, <1>2, <1>3, <2>1, <2>2 DEF PromiseInv
<1>4. ASSUME UNCHANGED Abstract!vars PROVE PromiseInv'
  BY <1>3, <1>4 DEF Abstract!vars, Building, Done, PromiseInv, Promised
<1>5. ASSUME NEW i \in Issues, Abstract!Sign(i) PROVE PromiseInv'
  <2>1. branch' = branch /\ merged' = merged /\ Building' = Building /\ signed \subseteq signed'
        /\ Done' = Done
    BY <1>5 DEF Abstract!Sign, Building, Done
  <2> QED BY <1>3, <2>1 DEF PromiseInv, Promised
<1>6. ASSUME NEW i \in Issues, Abstract!Finish(i) \/ Abstract!Reopen(i) PROVE PromiseInv'
  <2>1. branch' = branch /\ merged' = merged /\ Building' = Building /\ signed' = signed
    BY <1>6 DEF Abstract!Finish, Abstract!Reopen, Building
  <2>2. Done' \subseteq Done \/ (Done' = Done \cup {i} /\ merged[i] > 0)
    BY <1>6 DEF Abstract!Finish, Abstract!Reopen, Abstract!Delivered, Done
  <2> QED BY <1>3, <2>1, <2>2 DEF PromiseInv, Promised
<1>7. ASSUME NEW i \in Issues, Abstract!Begin(i) \/ Abstract!End(i) PROVE PromiseInv'
  <2>1. merged' = merged /\ signed' = signed /\ Done' = Done
    BY <1>7 DEF Abstract!Begin, Abstract!End, Done
  <2>2. \A j \in Issues : DepsMerged(j) => DepsMerged(j)'
    BY <1>2, <2>1, DepsStay
  <2>3. DepsMerged(i)
    <3>1. CASE Abstract!Begin(i)
      BY <3>1 DEF Abstract!Begin, Abstract!Buildable, Abstract!Delivered, DepsMerged
    <3>2. CASE Abstract!End(i)
      BY <3>2 DEF Abstract!End, Building, PromiseInv
    <3> QED BY <1>7, <3>1, <3>2
  <2>4. /\ branch' \in [Issues -> Nat]
        /\ \A j \in Issues \ {i} : branch'[j] = branch[j]
        /\ \A j \in Building' : branch'[j] > 0
    <3>1. CASE Abstract!Begin(i)
      <4>1. Building' = {i} /\ branch' = [branch EXCEPT ![i] = IF branch[i] = 0 THEN 1 ELSE branch[i]]
        BY <3>1 DEF Abstract!Begin, Building
      <4> QED BY <1>0, <4>1
    <3>2. CASE Abstract!End(i)
      <4>1. Building' = {} /\ branch' \in {branch, [branch EXCEPT ![i] = branch[i] + 1]}
        BY <3>2 DEF Abstract!End, Building
      <4> QED BY <1>0, <4>1
    <3> QED BY <1>7, <3>1, <3>2
  <2>5. \A j \in Issues : branch'[j] > 0 => DepsMerged(j)'
    BY <2>2, <2>3, <2>4 DEF PromiseInv
  <2>6. Promised'
    BY <1>2, <2>1, <2>2 DEF PromiseInv, Promised
  <2> QED BY <1>0, <1>2, <2>1, <2>4, <2>5, <2>6 DEF PromiseInv
<1>8. ASSUME NEW i \in Issues, Abstract!Merge(i) PROVE PromiseInv'
  <2>1. /\ branch' = branch /\ Building' = Building /\ signed' = signed /\ Done' = Done
        /\ branch[i] > 0 /\ (config.gated => i \in signed)
        /\ merged' = [merged EXCEPT ![i] = branch[i]]
    BY <1>8 DEF Abstract!Merge, Building, Done
  <2>2. merged' \in [Issues -> Nat] /\ \A j \in Issues : merged'[j] > 0 <=> merged[j] > 0 \/ j = i
    BY <1>0, <2>1
  <2>3. \A j \in Issues : DepsMerged(j) => DepsMerged(j)'
    BY <1>2, <2>2, DepsStay
  <2>4. Promised'
    BY <1>0, <1>2, <2>1, <2>2, <2>3 DEF PromiseInv, Promised
  <2> QED BY <1>0, <1>2, <2>1, <2>2, <2>3, <2>4 DEF PromiseInv
<1> QED BY <1>4, <1>5, <1>6, <1>7, <1>8 DEF Abstract!Next

\* Delivery keeps its promise, whatever implements it.
THEOREM DeliveryPromises == Abstract!Spec => []Abstract!Promise
<1>1. Abstract!Init => PromiseInv
  BY DEF Abstract!Init, PromiseInv, Promised, Building, Done
<1>2. PromiseInv => Abstract!Promise
  BY PromiseIs DEF PromiseInv
<1> QED BY <1>1, <1>2, PromiseStep, PTL DEF Abstract!Spec

\* So the lifecycle does: the primary branch always stands on what it needs, and reads of
\* done, signatures and dependencies agree with it (close_issue_done, _classify_deps).
THEOREM PrimaryAlwaysStands == Spec => []PrimaryStands
  BY DeliveryImplemented, DeliveryPromises, PTL DEF ImplementsDelivery, PrimaryStands
=============================================================================
