------------------------ MODULE BranchBootstrapProofs ------------------------
(***************************************************************************)
(* Proofs about BranchBootstrap for any number of releases, baselines and  *)
(* requests and for any bounds of the hazards: where the process serves,    *)
(* what becomes of a pending transaction, and what is left of the answered  *)
(* ones after redeployments and losses.                                     *)
(***************************************************************************)
EXTENDS BranchBootstrap, TLAPS

\* A history of the campaign of baseline b: its state grew from a release of b, and
\* the latest release in it is one of b as well.
Grown(h, b) ==
    /\ h \in Seq(Commits)
    /\ \E n \in 1..Releases : BaselineOf[n] = b /\ ReleasesIn(h, {"release"}) = 1..n
    /\ \E m \in ReleasesIn(h, {"release", "merge"}) :
          BaselineOf[m] = b /\ \A k \in ReleasesIn(h, {"release", "merge"}) : k <= m

Aligned  == {"retire", "merge", "publish", "handoff", "recover", "serving"}
Merging  == {"publish", "handoff", "recover", "serving"}
Handed   == {"handoff", "recover"}
Loose    == {"down", "ensure", "failed", "serving"}

\* Every variable that the steps of startup depend on holds what it should.
Typed ==
    /\ source \in 1..Releases /\ image \in 1..source
    /\ remote \in [Baselines -> Seq(Commits) \union {None}]
    /\ branch \in Baselines \union {SourceBranch, NoBranch}
    /\ head \in Seq(Commits)
    /\ dirty \in BOOLEAN
    /\ wal \in Requests \union {None}
    /\ pc \in Phases

\* A branch holds histories of its own baseline, on the remote, in the checkout and
\* while the checkout leaves it.
OwnHistories ==
    /\ \A b \in Baselines : remote[b] # None => Grown(remote[b], b)
    /\ branch \in Baselines => Grown(head, branch)
    /\ pc = "retire" => retired.branch \in Baselines /\ Grown(retired.head, retired.branch)

\* What the phases of startup have established.
Established ==
    /\ branch = NoBranch => pc \in {"down", "ensure"}
    /\ pc \in Aligned => branch = Target
    /\ pc \in Merging => Merged(head, image)
    /\ pc \in Handed => remote[Target] # None

\* Only a campaign branch can have a pending transaction, and it is not left with one;
\* its uncommitted changes keep startup from getting beyond its first phase.
Settled ==
    /\ dirty => wal # None /\ ~Holds(head, Tx(wal)) /\ pc \in Loose
    /\ branch \notin Baselines => wal = None /\ ~dirty
    /\ pc = "retire" => wal = None

\* ServingOnOwnLineage and EvidenceKept are not inductive: that the process serves on
\* its lineage follows from how each phase leaves the checkout, and that nothing
\* pending is left behind from no branch holding histories of another baseline.
BootInv == Typed /\ OwnHistories /\ Established /\ Settled

(***************************************************************************)
(* Answers.                                                                *)
(***************************************************************************)

\* At most one copy of a campaign is lost in a history: either remote refs are, and
\* then neither is the volume nor does the checkout leave its lineage, or the rest is.
SecondCopy ==
    \A bound \in Budgets : bound["lost_ref"] = 0 \/ (bound["lineage"] = 0 /\ bound["volume"] = 0)

RefsKept     == spent["lost_ref"] = 0
CheckoutKept == spent["lineage"] = 0 /\ spent["volume"] = 0

Spent ==
    /\ spent \in [Hazards -> Nat]
    /\ RefsKept \/ CheckoutKept

\* As long as no ref was lost the remote has every answer; as long as the checkout
\* was not lost or left, it has every answer.
AnswersHeld ==
    /\ answered \subseteq [request : Requests, lineage : Baselines]
    /\ RefsKept =>
         \A x \in answered : /\ remote[x.lineage] # None
                             /\ Holds(remote[x.lineage], Tx(x.request))
    /\ CheckoutKept =>
         /\ branch \in Baselines => branch = Target
         /\ pc # "retire"
         /\ \A x \in answered :
               /\ branch = x.lineage /\ Holds(head, Tx(x.request))
               /\ remote[x.lineage] # None => Holds(remote[x.lineage], Tx(x.request))

AnswersInv == Spent /\ AnswersHeld

(***************************************************************************)
(* Histories.                                                              *)
(***************************************************************************)

\* What a history holds stays in every one it is a prefix of.
LEMMA PrefixKeeps ==
  ASSUME NEW s \in Seq(Commits), NEW t \in Seq(Commits), IsPrefix(s, t)
  PROVE  /\ \A x : Holds(s, x) => Holds(t, x)
         /\ \A n : Merged(s, n) => Merged(t, n)
<1>1. /\ Len(s) \in Nat /\ Len(t) \in Nat /\ Len(s) <= Len(t)
      /\ DOMAIN s = 1..Len(s) /\ DOMAIN t = 1..Len(t)
  BY DEF IsPrefix
<1>2. \A i \in DOMAIN s : i \in DOMAIN t /\ t[i] = s[i]
  <2> SUFFICES ASSUME NEW i \in DOMAIN s PROVE i \in DOMAIN t /\ t[i] = s[i]
    OBVIOUS
  <2>1. i \in 1..Len(s) /\ i \in 1..Len(t) /\ s = SubSeq(t, 1, Len(s))
    BY <1>1 DEF IsPrefix
  <2>2. SubSeq(t, 1, Len(s))[i] = t[i]
    BY <1>1, <2>1
  <2> QED BY <1>1, <2>1, <2>2
<1>3. \A x : Holds(s, x) => Holds(t, x)
  BY <1>2 DEF Holds
<1>4. \A n : Merged(s, n) => Merged(t, n)
  BY <1>2 DEF Merged, ReleasesIn
<1> QED BY <1>3, <1>4

LEMMA AppendKeeps ==
  ASSUME NEW h \in Seq(Commits), NEW c \in Commits
  PROVE  /\ Append(h, c) \in Seq(Commits)
         /\ \A K : ReleasesIn(Append(h, c), K) =
                      ReleasesIn(h, K) \union (IF c.kind \in K THEN {c.id} ELSE {})
         /\ Holds(Append(h, c), c) /\ \A x : Holds(h, x) => Holds(Append(h, c), x)
         /\ \A n : Merged(h, n) => Merged(Append(h, c), n)
<1> DEFINE g == Append(h, c)
<1>1. /\ g \in Seq(Commits) /\ DOMAIN g = DOMAIN h \union {Len(h) + 1}
      /\ g[Len(h) + 1] = c /\ \A i \in DOMAIN h : g[i] = h[i]
  <2>1. /\ Len(h) \in Nat /\ DOMAIN h = 1..Len(h) /\ DOMAIN g = 1..Len(h) + 1
        /\ g \in Seq(Commits) /\ g[Len(h) + 1] = c
    OBVIOUS
  <2>2. \A i \in 1..Len(h) : g[i] = h[i]
    OBVIOUS
  <2>3. 1..Len(h) + 1 = 1..Len(h) \union {Len(h) + 1}
    BY <2>1
  <2> QED BY <2>1, <2>2, <2>3
<1> HIDE DEF g
<1>2. \A K : ReleasesIn(g, K) = ReleasesIn(h, K) \union (IF c.kind \in K THEN {c.id} ELSE {})
  BY <1>1 DEF ReleasesIn
<1>3. Holds(g, c) /\ \A x : Holds(h, x) => Holds(g, x)
  BY <1>1 DEF Holds
<1>4. \A n : Merged(h, n) => Merged(g, n)
  BY <1>2 DEF Merged
<1> QED BY <1>1, <1>2, <1>3, <1>4 DEF g

\* What the parent of a history holds, it holds.
LEMMA ParentKeeps ==
  ASSUME NEW h \in Seq(Commits)
  PROVE  \A x : Holds(Parent(h), x) => Holds(h, x)
<1> SUFFICES ASSUME NEW x, Holds(Parent(h), x) PROVE Holds(h, x)
  OBVIOUS
<1>1. Len(h) \in Nat /\ DOMAIN h = 1..Len(h)
  OBVIOUS
<1>2. PICK i \in DOMAIN Parent(h) : Parent(h)[i] = x
  BY DEF Holds
<1>3. i \in 1..Len(h) - 1 /\ Parent(h)[i] = h[i]
  BY <1>1, <1>2 DEF Parent
<1> QED BY <1>1, <1>2, <1>3 DEF Holds

\* A grown history tells its baseline by its origin and by its latest release.
LEMMA GrownTells ==
  ASSUME NEW h, NEW b, Grown(h, b)
  PROVE  /\ h \in Seq(Commits) /\ h # None /\ Len(h) > 0
         /\ Lineage(h) = b /\ Baseline(h) = b
<1>1. PICK n \in 1..Releases : BaselineOf[n] = b /\ ReleasesIn(h, {"release"}) = 1..n
  BY DEF Grown
<1>2. PICK m \in ReleasesIn(h, {"release", "merge"}) :
         BaselineOf[m] = b /\ \A k \in ReleasesIn(h, {"release", "merge"}) : k <= m
  BY DEF Grown
<1>3. h \in Seq(Commits) /\ h # None
  BY ReleasesAssumption DEF Grown
<1>4. Origin(h) = n
  <2>1. n \in 1..n /\ \A k \in 1..n : n >= k
    BY ReleasesAssumption
  <2>2. ASSUME NEW x \in 1..n, \A k \in 1..n : x >= k PROVE x = n
    <3>1. x >= n
      BY <2>1, <2>2
    <3> QED BY <3>1, ReleasesAssumption
  <2>3. Max(1..n) = n
    BY <2>1, <2>2 DEF Max
  <2> QED BY <1>1, <2>3 DEF Origin
<1>5. ReleasesIn(h, {"release", "merge"}) \subseteq 1..Releases
  BY <1>3 DEF ReleasesIn, Commits
<1>6. LatestRelease(h) = m
  <2> DEFINE R == ReleasesIn(h, {"release", "merge"})
  <2>1. m \in R /\ \A k \in R : m >= k
    BY <1>2, <1>5, ReleasesAssumption
  <2>2. \A x \in R : (\A k \in R : x >= k) => x = m
    BY <2>1, <1>5, ReleasesAssumption
  <2> HIDE DEF R
  <2>3. Max(R) = m
    BY <2>1, <2>2 DEF Max
  <2> QED BY <2>3 DEF LatestRelease, R
<1>7. Len(h) > 0
  <2>1. h # <<>>
    BY <1>2 DEF ReleasesIn
  <2> QED BY <1>3, <2>1
<1> QED BY <1>1, <1>2, <1>3, <1>4, <1>6, <1>7 DEF Lineage, Baseline

LEMMA GrownTx ==
  ASSUME NEW h, NEW b, Grown(h, b), NEW r \in Requests
  PROVE  Grown(Append(h, Tx(r)), b) /\ Holds(Append(h, Tx(r)), Tx(r))
<1>1. Tx(r) \in Commits /\ Tx(r).kind = "tx" /\ h \in Seq(Commits)
  BY DEF Tx, Commits, Grown
<1> DEFINE g == Append(h, Tx(r))
<1>2. /\ g \in Seq(Commits) /\ Holds(g, Tx(r))
      /\ \A K : ReleasesIn(g, K) = ReleasesIn(h, K) \union (IF Tx(r).kind \in K THEN {Tx(r).id} ELSE {})
  BY <1>1, AppendKeeps
<1> HIDE DEF g
<1>3. /\ ReleasesIn(g, {"release"}) = ReleasesIn(h, {"release"})
      /\ ReleasesIn(g, {"release", "merge"}) = ReleasesIn(h, {"release", "merge"})
  BY <1>1, <1>2
<1> QED BY <1>2, <1>3 DEF Grown, g

LEMMA GrownMerge ==
  ASSUME NEW h, NEW n \in 1..Releases, Grown(h, BaselineOf[n]), ~Merged(h, n)
  PROVE  Grown(Append(h, Merge(n)), BaselineOf[n]) /\ Merged(Append(h, Merge(n)), n)
<1> DEFINE g == Append(h, Merge(n))
<1>1. Merge(n) \in Commits /\ Merge(n).kind = "merge" /\ Merge(n).id = n /\ h \in Seq(Commits)
  BY DEF Merge, Commits, Grown
<1>2. /\ g \in Seq(Commits)
      /\ \A K : ReleasesIn(g, K) = ReleasesIn(h, K) \union (IF "merge" \in K THEN {n} ELSE {})
  BY <1>1, AppendKeeps
<1> HIDE DEF g
<1>3. /\ ReleasesIn(g, {"release"}) = ReleasesIn(h, {"release"})
      /\ ReleasesIn(g, {"release", "merge"}) = ReleasesIn(h, {"release", "merge"}) \union {n}
  BY <1>2
<1>4. ReleasesIn(h, {"release", "merge"}) \subseteq 1..Releases
  BY <1>1 DEF ReleasesIn, Commits
<1>5. \A k \in ReleasesIn(g, {"release", "merge"}) : k <= n
  BY <1>3, <1>4, ReleasesAssumption DEF Merged
<1>6. Merged(g, n)
  <2>1. n \in ReleasesIn(g, {"release", "merge"}) /\ n >= n
    BY <1>3, ReleasesAssumption
  <2> QED BY <2>1 DEF Merged
<1> QED BY <1>2, <1>3, <1>5, <1>6 DEF Grown, g

LEMMA GrownSource ==
  ASSUME NEW n \in 1..Releases
  PROVE  /\ SourceHistory(n) \in Seq(Commits)
         /\ Grown(SourceHistory(n), BaselineOf[n]) /\ Merged(SourceHistory(n), n)
<1> DEFINE h == SourceHistory(n)
<1>1. n \in Nat /\ DOMAIN h = 1..n /\ \A i \in 1..n : h[i] = Release(i) /\ i \in 1..Releases
  BY ReleasesAssumption DEF SourceHistory
<1>2. h \in Seq(Commits)
  <2>1. \A i \in 1..n : Release(i) \in Commits
    BY <1>1 DEF Release, Commits
  <2> QED BY <1>1, <2>1 DEF SourceHistory
<1>3. \A i \in 1..n : h[i].kind = "release" /\ h[i].id = i
  BY <1>1 DEF Release
<1> HIDE DEF h
<1>4. ReleasesIn(h, {"release"}) = 1..n /\ ReleasesIn(h, {"release", "merge"}) = 1..n
  BY <1>1, <1>3 DEF ReleasesIn
<1>5. n \in 1..n /\ n <= n /\ \A k \in 1..n : k <= n
  BY <1>1, ReleasesAssumption
<1>6. Grown(h, BaselineOf[n])
  BY <1>2, <1>4, <1>5 DEF Grown
<1>7. Merged(h, n)
  BY <1>4, <1>5 DEF Merged
<1> QED BY <1>2, <1>6, <1>7 DEF h

(***************************************************************************)
(* Startup and gameplay keep BootInv.                                      *)
(***************************************************************************)

LEMMA BootFacts ==
  ASSUME BootInv
  PROVE  /\ image \in 1..Releases /\ Target \in Baselines /\ image \in Nat
         /\ Target # SourceBranch /\ Target # NoBranch /\ SourceBranch \notin Baselines
         /\ NoBranch \notin Baselines /\ SourceBranch # NoBranch /\ None \notin Requests
         /\ pc \in Aligned => Grown(head, Target)
         /\ remote[Target] # None => Grown(remote[Target], Target)
<1>1. image \in 1..Releases /\ image \in Nat
  BY ReleasesAssumption DEF BootInv, Typed
<1>2. Target \in Baselines
  BY <1>1, ReleasesAssumption DEF Target
<1> QED BY <1>1, <1>2, ReleasesAssumption DEF BootInv, OwnHistories, Established

\* Steps that change neither the checkout nor the remote.
LEMMA BootStays ==
  ASSUME BootInv, UNCHANGED <<source, image, git, wal>>, pc' \in Phases,
         pc' \in Aligned => pc \in Aligned \/ branch = Target,
         pc' \in Merging => Merged(head, image),
         pc' \in Handed => remote[Target] # None,
         branch = NoBranch => pc' \in {"down", "ensure"},
         dirty => pc' \in Loose, pc' # "retire"
  PROVE  BootInv'
<1> USE DEF git
<1>1. Typed'
  BY DEF BootInv, Typed
<1>2. OwnHistories'
  BY DEF BootInv, OwnHistories
<1>3. Established'
  BY DEF BootInv, Established, Target
<1>4. Settled'
  BY DEF BootInv, Settled
<1> QED BY <1>1, <1>2, <1>3, <1>4 DEF BootInv

\* Steps that leave the checkout on the target branch with a history of it.
LEMMA BootMoves ==
  ASSUME BootInv, UNCHANGED <<source, image>>, pc' \in Aligned, pc' # "retire",
         branch' = Target, Grown(head', Target), dirty' \in BOOLEAN,
         wal' \in Requests \union {None},
         dirty' => wal' # None /\ ~Holds(head', Tx(wal')) /\ pc' \in Loose,
         remote' \in [Baselines -> Seq(Commits) \union {None}],
         \A b \in Baselines : remote'[b] # None => Grown(remote'[b], b),
         pc' \in Merging => Merged(head', image),
         pc' \in Handed => remote'[Target] # None
  PROVE  BootInv'
<1>1. Target' = Target /\ Target \in Baselines /\ Target # NoBranch
  BY BootFacts DEF Target
<1>2. Typed'
  <2>1. pc' \in Phases
    BY DEF Aligned, Phases
  <2> QED BY <1>1, <2>1, GrownTells DEF BootInv, Typed
<1>3. OwnHistories'
  BY <1>1 DEF OwnHistories
<1>4. Established'
  BY <1>1 DEF Established
<1>5. Settled'
  BY <1>1 DEF Settled
<1> QED BY <1>2, <1>3, <1>4, <1>5 DEF BootInv

\* The checkout leaves its lineage for a history of the target branch.
LEMMA BootLeaves ==
  ASSUME BootInv, NEW h, Grown(h, Target), branch \in Baselines, wal = None, ~dirty, Leave(h),
         UNCHANGED <<source, image, remote, dirty, kept>>
  PROVE  BootInv'
<1>1. /\ Target' = Target /\ Target \in Baselines /\ Target # NoBranch
      /\ branch' = Target /\ head' = h /\ pc' = "retire" /\ wal' = None
      /\ retired'.branch = branch /\ retired'.head = head
  BY BootFacts DEF Target, Leave, Goto, kept
<1>2. Typed'
  BY <1>1, GrownTells DEF BootInv, Typed, Phases
<1>3. OwnHistories'
  BY <1>1 DEF BootInv, OwnHistories
<1>4. Established' /\ Settled'
  BY <1>1 DEF Established, Settled, Merging, Handed
<1> QED BY <1>2, <1>3, <1>4 DEF BootInv

\* A baseline branch other than the target is left for another lineage only: the
\* target on the remote carries the target's contract and the checkout does not.
LEMMA OtherLineage ==
  ASSUME BootInv, pc = "select", branch # Target, ~LineageChange, remote[Target] # None
  PROVE  branch = SourceBranch
<1>1. Baseline(remote[Target]) = Target
  BY BootFacts, GrownTells
<1>2. branch \in Baselines => Baseline(head) # Target
  BY GrownTells DEF BootInv, OwnHistories
<1>3. branch # NoBranch /\ branch \in Baselines \union {SourceBranch, NoBranch}
  BY DEF BootInv, Established, Typed
<1> QED BY <1>1, <1>2, <1>3 DEF LineageChange

LEMMA BootSelect ==
  ASSUME BootInv,
         \/ AdoptNewLineage \/ AdoptSameLineage \/ Align \/ SeedFirst \/ SeedNewLineage
         \/ RepublishLost
  PROVE  BootInv'
<1> USE DEF At, Goto, git, kept
<1>0. /\ pc = "select" /\ branch \in Baselines \union {SourceBranch} /\ Target \in Baselines
      /\ image \in 1..Releases /\ ~dirty
  BY BootFacts DEF Settled, Loose, AdoptNewLineage, AdoptSameLineage, Align, SeedFirst, SeedNewLineage,
                   RepublishLost, BootInv, Typed, Established
<1>1. ASSUME pc' = "failed", UNCHANGED <<source, image, git, wal>> PROVE BootInv'
  BY <1>0, <1>1, BootFacts, BootStays DEF Phases, Aligned, Merging, Handed
<1>2. ASSUME pc' = "merge", branch' = Target, Grown(head', Target),
             remote' = remote \/ (remote' = [remote EXCEPT ![Target] = head']),
             UNCHANGED <<source, image, wal, dirty>>
      PROVE  BootInv'
  <2>1. remote' \in [Baselines -> Seq(Commits) \union {None}]
    BY <1>2, GrownTells DEF BootInv, Typed
  <2>2. \A b \in Baselines : remote'[b] # None => Grown(remote'[b], b)
    BY <1>2 DEF BootInv, Typed, OwnHistories
  <2>3. dirty' \in BOOLEAN /\ ~dirty' /\ wal' \in Requests \union {None}
    BY <1>0, <1>2 DEF BootInv, Typed
  <2> QED BY <1>2, <2>1, <2>2, <2>3, BootMoves DEF Aligned, Merging, Handed
<1>3. CASE AdoptNewLineage
  <2>1. remote[Target] # None /\ branch \in Baselines
    BY <1>0, <1>3 DEF AdoptNewLineage, LineageChange
  <2>2. CASE WalSettled /\ Leave(remote[Target])
    BY <1>0, <1>3, <2>1, <2>2, BootFacts, BootLeaves DEF AdoptNewLineage, WalSettled
  <2>3. CASE pc' = "failed" /\ UNCHANGED <<branch, head>>
    BY <1>1, <1>3, <2>3 DEF AdoptNewLineage
  <2> QED BY <1>3, <2>2, <2>3 DEF AdoptNewLineage
<1>4. CASE AdoptSameLineage
  <2>1. CASE pc' = "failed" /\ UNCHANGED <<branch, head>>
    BY <1>1, <1>4, <2>1 DEF AdoptSameLineage
  <2>2. CASE pc' = "merge" /\ branch' = Target /\ head' = remote[Target]
    BY <1>2, <1>4, <2>2, BootFacts DEF AdoptSameLineage
  <2> QED BY <1>4, <2>1, <2>2 DEF AdoptSameLineage
<1>5. CASE Align
  <2>1. CASE FastForwards /\ head' = remote[Target] /\ pc' = "merge"
    BY <1>2, <1>5, <2>1, BootFacts DEF Align
  <2>2. CASE LeftToRecovery /\ pc' = "handoff" /\ head' = head
    BY <1>0, <1>5, <2>2, BootFacts, BootStays DEF Align, LeftToRecovery, Aligned, Merging, Handed, Phases
  <2>3. CASE pc' = "failed" /\ head' = head
    BY <1>1, <1>5, <2>3 DEF Align
  <2> QED BY <1>5, <2>1, <2>2, <2>3 DEF Align
<1>6. CASE SeedFirst
  BY <1>0, <1>2, <1>6, GrownSource DEF SeedFirst, Target
<1>7. CASE SeedNewLineage
  <2>1. branch \in Baselines /\ Grown(SourceHistory(image), Target)
    BY <1>0, <1>7, GrownSource DEF SeedNewLineage, Target
  <2>2. CASE WalSettled /\ Leave(SourceHistory(image))
    BY <1>0, <1>7, <2>1, <2>2, BootLeaves DEF SeedNewLineage, WalSettled
  <2>3. CASE pc' = "failed" /\ UNCHANGED <<branch, head>>
    BY <1>1, <1>7, <2>3 DEF SeedNewLineage
  <2> QED BY <1>7, <2>2, <2>3 DEF SeedNewLineage
<1>8. CASE RepublishLost
  <2>1. branch = Target /\ Grown(head, Target)
    BY <1>0, <1>8 DEF RepublishLost, BootInv, OwnHistories
  <2>2. CASE remote' = [remote EXCEPT ![Target] = head] /\ pc' = "merge"
    BY <1>2, <1>8, <2>1, <2>2 DEF RepublishLost
  <2>3. CASE pc' = "failed" /\ remote' = remote
    BY <1>1, <1>8, <2>3 DEF RepublishLost
  <2> QED BY <1>8, <2>2, <2>3 DEF RepublishLost
<1> QED BY <1>3, <1>4, <1>5, <1>6, <1>7, <1>8

LEMMA BootBegins ==
  ASSUME BootInv, Start \/ EnsureRepository
  PROVE  BootInv'
<1> USE DEF At, Goto, git, kept
<1>1. CASE Start
  BY <1>1, BootStays DEF Start, Phases, Loose, Settled, Aligned, Merging, Handed, BootInv, Established
<1>2. CASE EnsureRepository /\ branch # NoBranch
  BY <1>2, BootStays DEF EnsureRepository, Phases, Loose, Aligned, Merging, Handed
<1>3. CASE EnsureRepository /\ branch = NoBranch
  <2>1. /\ branch' = SourceBranch /\ head' = SourceHistory(source) /\ pc' = "select"
        /\ UNCHANGED <<source, image, remote, dirty, wal, retired>>
        /\ SourceHistory(source) \in Seq(Commits) /\ wal = None /\ ~dirty
    BY <1>3, BootFacts, GrownSource DEF EnsureRepository, BootInv, Typed, Settled
  <2>2. Typed'
    BY <2>1 DEF BootInv, Typed, Phases
  <2>3. OwnHistories' /\ Established' /\ Settled'
    BY <2>1, BootFacts DEF BootInv, OwnHistories, Established, Settled, Aligned, Merging, Handed
  <2> QED BY <2>2, <2>3 DEF BootInv
<1> QED BY <1>1, <1>2, <1>3

LEMMA BootMerges ==
  ASSUME BootInv,
         Retire \/ RetireFails \/ MergeSource \/ Publish \/ EnsureCheckout \/ RecoverDone
  PROVE  BootInv'
<1> USE DEF At, Goto, git, kept
<1>0. /\ Target' = Target /\ image' = image /\ source' = source
      /\ pc \in Aligned => branch = Target /\ Grown(head, Target) /\ head \in Seq(Commits)
      /\ remote \in [Baselines -> Seq(Commits) \union {None}]
      /\ \A b \in Baselines : remote[b] # None => Grown(remote[b], b)
      /\ dirty = FALSE /\ wal \in Requests \union {None} /\ Target \in Baselines
  BY BootFacts, GrownTells DEF Retire, RetireFails, MergeSource, Publish, EnsureCheckout,
     RecoverDone, Settled, Loose, Target, BootInv, Typed, OwnHistories, Established
<1>1. CASE Retire
  BY <1>0, <1>1, BootMoves DEF Retire, Aligned, Merging, Handed
<1>2. CASE RetireFails
  <2>1. /\ branch' = retired.branch /\ head' = retired.head /\ pc' = "failed"
        /\ UNCHANGED <<remote, dirty, wal>>
        /\ retired.branch \in Baselines /\ Grown(retired.head, retired.branch)
    BY <1>2 DEF RetireFails, BootInv, OwnHistories
  <2>2. Typed'
    BY <1>0, <2>1, GrownTells DEF BootInv, Typed, Phases
  <2>3. OwnHistories' /\ Established' /\ Settled'
    BY <1>0, <2>1, BootFacts DEF OwnHistories, Established, Settled, Aligned, Merging, Handed
  <2> QED BY <2>2, <2>3 DEF BootInv
<1>3. CASE MergeSource
  <2>1. branch = Target /\ Grown(head, Target)
    BY <1>0, <1>3 DEF MergeSource, Aligned
  <2>2. CASE Merged(head, image) /\ pc' = "publish" /\ head' = head
    BY <1>0, <1>3, <2>1, <2>2, BootMoves DEF MergeSource, Aligned, Merging, Handed
  <2>3. CASE pc' = "failed" /\ head' = head
    BY <1>0, <1>3, <2>1, <2>3, BootStays, BootFacts
       DEF MergeSource, Phases, Aligned, Merging, Handed
  <2>4. CASE ~Merged(head, image) /\ head' = Append(head, Merge(image)) /\ pc' = "publish"
    <3>1. Grown(head', Target) /\ Merged(head', image)
      BY <2>1, <2>4, BootFacts, GrownMerge DEF Target
    <3> QED BY <1>0, <1>3, <2>1, <2>4, <3>1, BootMoves DEF MergeSource, Aligned, Merging, Handed
  <2> QED BY <1>3, <2>2, <2>3, <2>4 DEF MergeSource
<1>4. CASE Publish
  <2>1. branch = Target /\ Grown(head, Target) /\ Merged(head, image)
    BY <1>0, <1>4 DEF Publish, Aligned, Merging, BootInv, Established
  <2>2. CASE remote' = [remote EXCEPT ![Target] = head] /\ pc' = "handoff"
    <3>1. /\ remote' \in [Baselines -> Seq(Commits) \union {None}]
          /\ \A b \in Baselines : remote'[b] # None => Grown(remote'[b], b)
          /\ remote'[Target] # None
      BY <1>0, <2>1, <2>2, GrownTells
    <3> QED BY <1>0, <1>4, <2>1, <2>2, <3>1, BootMoves DEF Publish, Aligned
  <2>3. CASE pc' = "failed" /\ remote' = remote
    BY <1>0, <1>4, <2>1, <2>3, BootStays, BootFacts DEF Publish, Phases, Aligned, Merging, Handed
  <2> QED BY <1>4, <2>2, <2>3 DEF Publish
<1>5. CASE EnsureCheckout
  <2>1. /\ branch = Target /\ Grown(head, Target) /\ Merged(head, image)
        /\ remote[Target] # None /\ Grown(remote[Target], Target)
    BY <1>0, <1>5, BootFacts DEF EnsureCheckout, Aligned, Merging, Handed, BootInv, Established
  <2>2. Grown(head', Target) /\ Merged(head', image) /\ head' \in Seq(Commits)
    <3>1. CASE head' = head
      BY <1>0, <2>1, <3>1, GrownTells
    <3>2. CASE IsPrefix(head, remote[Target]) /\ head' = remote[Target]
      <4>1. head \in Seq(Commits) /\ remote[Target] \in Seq(Commits)
        BY <2>1, GrownTells
      <4> QED BY <2>1, <3>2, <4>1, PrefixKeeps
    <3> QED BY <1>5, <3>1, <3>2 DEF EnsureCheckout
  <2>3. CASE pc' = "recover"
    BY <1>0, <1>5, <2>1, <2>2, <2>3, BootMoves DEF EnsureCheckout, Aligned, Merging, Handed
  <2>4. CASE pc' = "failed"
    <3>1. /\ UNCHANGED <<source, image, remote, branch, dirty, wal, retired>>
          /\ branch \in Baselines /\ branch # NoBranch
      BY <1>0, <1>5, <2>1, BootFacts DEF EnsureCheckout
    <3>2. Typed'
      BY <2>2, <2>4, <3>1 DEF BootInv, Typed, Phases
    <3>3. OwnHistories' /\ Established' /\ Settled'
      BY <1>0, <2>1, <2>2, <2>4, <3>1 DEF OwnHistories, Established, Settled, Aligned, Merging, Handed
    <3> QED BY <3>2, <3>3 DEF BootInv
  <2> QED BY <1>5, <2>3, <2>4 DEF EnsureCheckout
<1>6. CASE RecoverDone
  BY <1>0, <1>6, BootStays, BootFacts
     DEF RecoverDone, Phases, Aligned, Merging, Handed, BootInv, Established
<1> QED BY <1>1, <1>2, <1>3, <1>4, <1>5, <1>6

LEMMA BootPlays ==
  ASSUME BootInv, RecoverPending \/ Gameplay
  PROVE  BootInv'
<1> USE DEF At, Goto, git, kept
<1>0. /\ Target' = Target /\ image' = image /\ source' = source
      /\ branch = Target /\ Grown(head, Target) /\ head \in Seq(Commits)
      /\ remote \in [Baselines -> Seq(Commits) \union {None}]
      /\ \A b \in Baselines : remote[b] # None => Grown(remote[b], b)
      /\ dirty \in BOOLEAN /\ wal \in Requests \union {None} /\ Target \in Baselines
      /\ pc \in {"recover", "serving"} /\ Merged(head, image) /\ branch' = branch
      /\ pc \in Handed => remote[Target] # None
      /\ dirty => wal # None /\ ~Holds(head, Tx(wal)) /\ pc = "serving"
  <2>1. /\ pc \in {"recover", "serving"} /\ branch' = branch
        /\ image' = image /\ source' = source
    BY DEF RecoverPending, Gameplay, Prepare, Apply, Commit, Push, Finish
  <2> QED BY <2>1, BootFacts, GrownTells DEF Target, Aligned, Merging, BootInv, Typed,
            OwnHistories, Established, Settled, Loose
<1>1. ASSUME Grown(head', Target), Merged(head', image), pc' = pc, dirty' \in BOOLEAN,
             wal' \in Requests \union {None},
             dirty' => wal' # None /\ ~Holds(head', Tx(wal')) /\ pc' \in Loose,
             remote' = remote \/ (remote' = [remote EXCEPT ![Target] = head'])
      PROVE  BootInv'
  <2>1. head' # None /\ head' \in Seq(Commits)
    BY <1>1, GrownTells
  <2>2. /\ remote' \in [Baselines -> Seq(Commits) \union {None}]
        /\ \A b \in Baselines : remote'[b] # None => Grown(remote'[b], b)
        /\ pc' \in Handed => remote'[Target] # None
    BY <1>0, <1>1, <2>1
  <2> QED BY <1>0, <1>1, <2>1, <2>2, BootMoves DEF Aligned
<1>2. CASE RecoverPending
  <2>1. CASE remote' = [remote EXCEPT ![branch] = head] /\ Answer(wal) /\ UNCHANGED <<dirty, pc>>
    BY <1>0, <1>1, <1>2, <2>1 DEF RecoverPending, Answer
  <2>2. CASE dirty' = FALSE /\ wal' = None /\ UNCHANGED <<remote, pc>>
    BY <1>0, <1>1, <1>2, <2>2 DEF RecoverPending
  <2>3. CASE pc' = "failed" /\ UNCHANGED <<remote, dirty, kept>>
    BY <1>0, <1>2, <2>3, BootStays, BootFacts DEF RecoverPending, Phases, Aligned, Merging, Handed
  <2> QED BY <1>2, <2>1, <2>2, <2>3 DEF RecoverPending
<1>3. ASSUME NEW r \in Requests, Prepare(r) PROVE BootInv'
  BY <1>0, <1>1, <1>3 DEF Prepare
<1>4. CASE Apply
  BY <1>0, <1>1, <1>4 DEF Apply, Loose
<1>5. CASE Commit
  <2>1. wal \in Requests /\ head' = Append(head, Tx(wal))
    BY <1>0, <1>5 DEF Commit
  <2>2. Tx(wal) \in Commits
    BY <2>1 DEF Tx, Commits
  <2>3. Grown(head', Target) /\ Merged(head', image)
    BY <1>0, <2>1, <2>2, GrownTx, AppendKeeps
  <2>4. pc' = pc /\ dirty' = FALSE /\ wal' = wal /\ remote' = remote
    BY <1>5 DEF Commit
  <2> QED BY <1>0, <1>1, <2>3, <2>4
<1>6. CASE Push \/ Finish
  <2>1. IsHead(wal) => Holds(head, Tx(wal))
    BY <1>0, GrownTells DEF IsHead, Holds
  <2>2. ~dirty
    BY <1>0, <1>6, <2>1 DEF Push, Finish
  <2> QED BY <1>0, <1>1, <1>6, <2>2 DEF Push, Finish, Answer
<1> QED BY <1>2, <1>3, <1>4, <1>5, <1>6 DEF Gameplay

LEMMA BootHazards ==
  ASSUME BootInv, Kill \/ NewRelease \/ Deploy \/ LoseRef \/ LoseVolume
  PROVE  BootInv'
<1> USE DEF At, Goto, git, kept, Aligned, Merging, Handed, Loose
<1>1. CASE Kill
  BY <1>1, BootStays DEF Kill, Phases
<1>2. CASE NewRelease
  <2>1. /\ source' \in 1..Releases /\ image' = image /\ image' \in 1..source'
        /\ UNCHANGED <<remote, branch, head, dirty, wal, retired, pc>>
    BY <1>2, ReleasesAssumption DEF NewRelease, BootInv, Typed
  <2> QED BY <2>1 DEF BootInv, Typed, OwnHistories, Established, Settled, Target
<1>3. CASE Deploy
  <2>1. /\ pc' = "down" /\ UNCHANGED <<source, remote, branch, head, dirty, wal, retired>>
        /\ image' \in 1..source'
    BY <1>3 DEF Deploy
  <2> QED BY <2>1 DEF BootInv, Typed, OwnHistories, Established, Settled, Phases
<1>4. CASE LoseRef
  <2>1. PICK b \in Baselines : remote' = [remote EXCEPT ![b] = None]
    BY <1>4 DEF LoseRef
  <2>2. /\ UNCHANGED <<source, image, branch, head, dirty, wal, retired, pc>>
        /\ pc \in {"serving", "failed", "down"}
    BY <1>4 DEF LoseRef
  <2>3. Typed' /\ \A c \in Baselines : remote'[c] = None \/ remote'[c] = remote[c]
    BY <2>1, <2>2 DEF BootInv, Typed
  <2>4. OwnHistories' /\ Established' /\ Settled'
    BY <2>2, <2>3 DEF BootInv, OwnHistories, Established, Settled, Target
  <2> QED BY <2>3, <2>4 DEF BootInv
<1>5. CASE LoseVolume
  <2>1. /\ branch' = NoBranch /\ head' = <<>> /\ dirty' = FALSE /\ wal' = None /\ pc = "down"
        /\ UNCHANGED <<source, image, remote, pc>> /\ <<>> \in Seq(Commits)
    BY <1>5 DEF LoseVolume
  <2> QED BY <2>1, BootFacts DEF BootInv, Typed, OwnHistories, Established, Settled
<1> QED BY <1>1, <1>2, <1>3, <1>4, <1>5

LEMMA BootStep ==
  ASSUME BootInv, [Next]_vars
  PROVE  BootInv'
<1>1. CASE UNCHANGED vars
  BY <1>1 DEF vars, git, kept, BootInv, Typed, OwnHistories, Established, Settled, Target
<1> QED BY <1>1, BootBegins, BootSelect, BootMerges, BootPlays, BootHazards DEF Next, Startup, Gameplay

THEOREM BootInvariant == Spec => []BootInv
<1>1. Init => BootInv
  <2> SUFFICES ASSUME Init PROVE BootInv
    OBVIOUS
  <2>1. 1 \in 1..Releases /\ 1 \in 1..1 /\ NoBranch \notin Baselines /\ <<>> \in Seq(Commits)
    BY ReleasesAssumption
  <2>2. Typed
    BY <2>1 DEF Init, Typed, Phases
  <2>3. OwnHistories /\ Established /\ Settled
    BY <2>1 DEF Init, OwnHistories, Established, Settled, Aligned, Merging, Handed
  <2> QED BY <2>2, <2>3 DEF BootInv
<1>2. BootInv /\ [Next]_vars => BootInv'
  BY BootStep
<1> QED BY <1>1, <1>2, PTL DEF Spec

\* Whatever was deployed, killed or lost before, and however many releases and
\* baselines there are, the process serves on the branch of its own release's baseline,
\* with that release merged (prepare_campaign_branch in branch_bootstrap.py).
THEOREM ServesOnOwnLineage == Spec => []ServingOnOwnLineage
<1>1. BootInv => ServingOnOwnLineage
  <2> SUFFICES ASSUME BootInv, pc = "serving" PROVE ServingOnOwnLineage
    BY DEF ServingOnOwnLineage
  <2>1. branch = Target /\ Merged(head, image)
    BY DEF BootInv, Established, Aligned, Merging
  <2>2. Grown(head, Target)
    BY BootFacts DEF Aligned
  <2> QED BY <2>1, <2>2, GrownTells DEF ServingOnOwnLineage
<1> QED BY <1>1, BootInvariant, PTL

(***************************************************************************)
(* The pending transaction.                                                *)
(***************************************************************************)

\* Where nothing is pending there is nothing to keep.
LEMMA NothingPending ==
  ASSUME wal = None
  PROVE  EvidenceStep
  BY ReleasesAssumption DEF EvidenceStep

\* A head that is only extended keeps the commit.
LEMMA EvidenceExtends ==
  ASSUME wal' = wal, branch' = branch, \A x : Holds(head, x) => Holds(head', x)
  PROVE  EvidenceStep
<1> SUFFICES ASSUME NEW r \in Requests, wal = r
             PROVE  wal' = r /\ branch' = branch /\ (Committed(r) => Committed(r)')
  BY DEF EvidenceStep
<1>1. Committed(r) => Committed(r)'
  BY DEF Committed, Holds
<1> QED BY <1>1

LEMMA EvidenceMoves ==
  ASSUME BootInv, [Next]_vars
  PROVE  EvidenceStep \/ branch' = NoBranch
<1> USE DEF At, Goto, git, kept
<1>1. CASE AdoptNewLineage \/ SeedNewLineage
  <2>1. CASE wal = None
    BY <2>1, NothingPending
  <2>2. CASE wal' = wal /\ branch' = branch /\ head' = head
    BY <2>2, EvidenceExtends
  <2> QED BY <1>1, <2>1, <2>2 DEF AdoptNewLineage, SeedNewLineage, WalSettled
<1>2. CASE AdoptSameLineage
  <2>1. branch = SourceBranch
    BY <1>2, OtherLineage DEF AdoptSameLineage
  <2> QED BY <2>1, NothingPending, BootFacts DEF BootInv, Settled
<1>3. CASE SeedFirst
  BY <1>3, NothingPending, BootFacts DEF SeedFirst, BootInv, Settled
<1>4. CASE EnsureRepository
  <2>1. CASE branch = NoBranch
    BY <2>1, NothingPending, BootFacts DEF BootInv, Settled
  <2>2. CASE wal' = wal /\ branch' = branch /\ head' = head
    BY <2>2, EvidenceExtends
  <2> QED BY <1>4, <2>1, <2>2 DEF EnsureRepository
<1>5. CASE Retire \/ RetireFails
  <2>1. wal = None
    BY <1>5 DEF Retire, RetireFails, BootInv, Settled
  <2> QED BY <2>1, NothingPending
<1>6. CASE Align \/ EnsureCheckout
  <2>1. wal' = wal /\ branch' = branch
    BY <1>6 DEF Align, EnsureCheckout
  <2>2. head' = head \/ (IsPrefix(head, remote[Target]) /\ head' = remote[Target])
    BY <1>6 DEF Align, EnsureCheckout, FastForwards
  <2>3. remote[Target] # None => remote[Target] \in Seq(Commits)
    BY BootFacts, GrownTells
  <2>4. remote[Target] # None
    BY <1>6 DEF Align, EnsureCheckout, BootInv, Established, Handed
  <2>5. head \in Seq(Commits)
    BY DEF BootInv, Typed
  <2>6. \A x : Holds(head, x) => Holds(head', x)
    BY <2>2, <2>3, <2>4, <2>5, PrefixKeeps
  <2> QED BY <2>1, <2>6, EvidenceExtends
<1>7. CASE MergeSource \/ Commit
  <2>1. wal' = wal /\ branch' = branch /\ head \in Seq(Commits)
    BY <1>7 DEF MergeSource, Commit, BootInv, Typed
  <2>2. head' = head \/ \E c \in Commits : head' = Append(head, c)
    <3>1. Merge(image) \in Commits
      BY BootFacts DEF Merge, Commits
    <3>2. Commit => Tx(wal) \in Commits
      BY DEF Commit, BootInv, Settled, Typed, Tx, Commits
    <3> QED BY <1>7, <3>1, <3>2 DEF MergeSource, Commit
  <2>3. \A c \in Commits : \A x : Holds(head, x) => Holds(Append(head, c), x)
    BY <2>1, AppendKeeps
  <2>4. \A x : Holds(head, x) => Holds(head', x)
    BY <2>2, <2>3
  <2> QED BY <2>1, <2>4, EvidenceExtends
<1>8. CASE \/ Start \/ RepublishLost \/ Publish \/ RecoverDone \/ Apply \/ Push \/ Kill
           \/ NewRelease \/ Deploy \/ LoseRef \/ UNCHANGED vars
  <2>1. wal' = wal /\ branch' = branch /\ head' = head
    BY <1>8 DEF Start, RepublishLost, Publish, RecoverDone, Apply, Push, Kill, NewRelease,
                Deploy, LoseRef, vars
  <2> QED BY <2>1, EvidenceExtends
<1>9. ASSUME NEW r \in Requests, Prepare(r) PROVE EvidenceStep
  BY <1>9, NothingPending DEF Prepare
<1>10. ASSUME Answer(wal), IsHead(wal), branch' = branch, head' = head, pc \in Aligned
       PROVE  EvidenceStep
  <2>1. Grown(head, Target)
    BY <1>10, BootFacts
  <2>2. Holds(head, Tx(wal))
    BY <1>10, <2>1, GrownTells DEF IsHead, Holds
  <2>3. wal' = None /\ [request |-> wal, lineage |-> branch] \in answered'
    BY <1>10 DEF Answer
  <2> SUFFICES ASSUME NEW r \in Requests, wal = r
               PROVE  wal' = None /\ Committed(r)' /\ \E x \in answered' : x.request = r
    BY DEF EvidenceStep
  <2>4. Committed(r)'
    BY <1>10, <2>2 DEF Committed, Holds
  <2> QED BY <2>3, <2>4
<1>11. CASE RecoverPending
  <2>1. CASE Deliverable /\ Answer(wal)
    BY <1>10, <1>11, <2>1 DEF RecoverPending, Deliverable, Aligned
  <2>2. CASE Undoable /\ wal' = None /\ dirty' = FALSE
    <3> SUFFICES ASSUME NEW r \in Requests, wal = r
                 PROVE  wal' = None /\ ~Committed(r) /\ ~Committed(r)' /\ ~dirty'
      BY DEF EvidenceStep
    <3>1. ~Committed(r) /\ head' = head
      BY <1>11, <2>2 DEF RecoverPending, Undoable, Committed
    <3>2. ~Committed(r)'
      BY <3>1 DEF Committed, Holds
    <3> QED BY <2>2, <3>1, <3>2
  <2>3. CASE UNCHANGED kept
    BY <1>11, <2>3, EvidenceExtends DEF RecoverPending
  <2> QED BY <1>11, <2>1, <2>2, <2>3 DEF RecoverPending
<1>12. CASE Finish
  BY <1>10, <1>12 DEF Finish, Aligned
<1>13. CASE LoseVolume
  BY <1>13 DEF LoseVolume
<1> QED BY <1>1, <1>2, <1>3, <1>4, <1>5, <1>6, <1>7, <1>8, <1>9, <1>11, <1>12, <1>13
        DEF Next, Startup, Gameplay

\* Neither startup nor a redeployment in between drops the commit of a pending
\* transaction or takes it to another branch: it leaves the WAL answered or undone
\* (_has_recoverable_wal in branch_bootstrap.py, recover in campaign_coordinator.py).
THEOREM EvidenceIsKept == Spec => EvidenceKept
<1>1. BootInv /\ [Next]_vars => [EvidenceStep \/ branch' = NoBranch]_vars
  BY EvidenceMoves
<1> QED BY <1>1, BootInvariant, PTL DEF Spec, EvidenceKept

(***************************************************************************)
(* The answered requests.                                                  *)
(***************************************************************************)

\* A hazard that may strike only within a bound.
LEMMA SpentStep ==
  ASSUME SecondCopy, Spent, [Next]_vars
  PROVE  /\ Spent' /\ (RefsKept' => RefsKept) /\ (CheckoutKept' => CheckoutKept)
         /\ LoseRef => ~RefsKept'
         /\ LoseVolume => ~CheckoutKept'
         /\ Deploy /\ Target' # Target => ~CheckoutKept'
<1>0. "lost_ref" \in Hazards /\ "lineage" \in Hazards /\ "volume" \in Hazards
      /\ spent \in [Hazards -> Nat]
  BY DEF Hazards, Spent
<1>1. ASSUME NEW K, Spend(K)
      PROVE  /\ Spent' /\ (RefsKept' => RefsKept) /\ (CheckoutKept' => CheckoutKept)
             /\ "lost_ref" \in K => ~RefsKept'
             /\ "lineage" \in K \/ "volume" \in K => ~CheckoutKept'
  <2>1. /\ spent' = [h \in Hazards |-> IF h \in K THEN spent[h] + 1 ELSE spent[h]]
        /\ \E bound \in Budgets : \A h \in Hazards : spent'[h] <= bound[h]
    BY <1>1 DEF Spend
  <2>2. \A h \in Hazards : /\ spent[h] \in Nat /\ spent'[h] \in Nat /\ spent[h] <= spent'[h]
                           /\ h \in K => spent'[h] = spent[h] + 1
    BY <1>0, <2>1
  <2>3. PICK bound \in Budgets : \A h \in Hazards : spent'[h] <= bound[h]
    BY <2>1
  <2>4. bound["lost_ref"] = 0 \/ (bound["lineage"] = 0 /\ bound["volume"] = 0)
    BY DEF SecondCopy
  <2>5. RefsKept' \/ CheckoutKept'
    BY <1>0, <2>2, <2>3, <2>4 DEF RefsKept, CheckoutKept
  <2>6. spent' \in [Hazards -> Nat]
    BY <1>0, <2>1
  <2> QED BY <1>0, <2>2, <2>5, <2>6 DEF Spent, RefsKept, CheckoutKept
<1>2. ASSUME spent' = spent
      PROVE  Spent' /\ (RefsKept' => RefsKept) /\ (CheckoutKept' => CheckoutKept)
  BY <1>2 DEF Spent, RefsKept, CheckoutKept
<1>3. /\ LoseRef => ~RefsKept'
      /\ LoseVolume => ~CheckoutKept'
      /\ Deploy /\ Target' # Target => ~CheckoutKept'
  <2>1. LoseRef => ~RefsKept'
    BY <1>1 DEF LoseRef
  <2>2. LoseVolume => ~CheckoutKept'
    BY <1>1 DEF LoseVolume
  <2>3. ASSUME Deploy, Target' # Target PROVE ~CheckoutKept'
    <3>1. PICK n \in 1..source :
             image' = n /\ Spend({"deploy"} \union IF BaselineOf[n] = Target THEN {} ELSE {"lineage"})
      BY <2>3 DEF Deploy
    <3>2. BaselineOf[n] # Target
      BY <2>3, <3>1 DEF Target
    <3> QED BY <1>1, <3>1, <3>2
  <2> QED BY <2>1, <2>2, <2>3
<1>4. spent' = spent \/ \E K : Spend(K)
  BY DEF Next, Startup, Gameplay, vars, Start, EnsureRepository, AdoptNewLineage,
         AdoptSameLineage, Align, SeedFirst, SeedNewLineage, RepublishLost, Retire, RetireFails,
         MergeSource, Publish, EnsureCheckout, RecoverPending, RecoverDone, Prepare, Apply,
         Commit, Push, Finish, Kill, NewRelease, Deploy, LoseRef, LoseVolume
<1> QED BY <1>1, <1>2, <1>3, <1>4

\* A branch on the remote is lost, or gets the checkout's head, which extends it.
LEMMA RemoteMoves ==
  ASSUME BootInv, [Next]_vars, NEW b \in Baselines
  PROVE  \/ remote'[b] = remote[b]
         \/ LoseRef /\ remote'[b] = None
         \/ /\ b = branch /\ branch' = branch /\ head' = head /\ remote'[b] = head /\ Grown(head, b)
            /\ remote[b] # None => \A x : Holds(remote[b], x) => Holds(head, x)
<1> USE DEF At, Goto, git
<1>1. remote \in [Baselines -> Seq(Commits) \union {None}]
  BY DEF BootInv, Typed
<1>2. ASSUME branch = Target, branch' = branch, head' = head, Grown(head, Target),
             remote' = [remote EXCEPT ![Target] = head],
             remote[Target] # None => \A x : Holds(remote[Target], x) => Holds(head, x)
      PROVE  \/ remote'[b] = remote[b]
             \/ /\ b = branch /\ branch' = branch /\ head' = head
                /\ remote'[b] = head /\ Grown(head, b)
                /\ remote[b] # None => \A x : Holds(remote[b], x) => Holds(head, x)
  BY <1>1, <1>2
<1>3. CASE remote' = remote
  BY <1>3
<1>4. CASE LoseRef
  BY <1>1, <1>4 DEF LoseRef
<1>5. CASE RepublishLost /\ remote' # remote
  <2>1. Grown(head, Target) /\ branch = Target /\ remote[Target] = None
    BY <1>5, BootFacts DEF RepublishLost, BootInv, OwnHistories
  <2> QED BY <1>2, <1>5, <2>1 DEF RepublishLost
<1>6. CASE Publish /\ remote' # remote
  <2>1. branch = Target /\ Grown(head, Target) /\ head \in Seq(Commits)
    BY <1>6, BootFacts, GrownTells DEF Publish, Aligned, BootInv, Established
  <2>2. remote[Target] # None => remote[Target] \in Seq(Commits)
    BY BootFacts, GrownTells
  <2>3. remote[Target] # None => \A x : Holds(remote[Target], x) => Holds(head, x)
    BY <1>6, <2>1, <2>2, PrefixKeeps DEF Publish
  <2> QED BY <1>2, <1>6, <2>1, <2>3 DEF Publish
<1>7. CASE (RecoverPending \/ Push) /\ remote' # remote
  <2>1. /\ branch = Target /\ Grown(head, Target) /\ head \in Seq(Commits)
        /\ remote' = [remote EXCEPT ![branch] = head] /\ branch' = branch /\ head' = head
        /\ remote[branch] \in {head, Parent(head)}
    BY <1>7, BootFacts, GrownTells
       DEF RecoverPending, Push, Deliverable, Aligned, BootInv, Established, kept
  <2>2. \A x : Holds(remote[Target], x) => Holds(head, x)
    BY <2>1, ParentKeeps
  <2> QED BY <1>2, <2>1, <2>2
<1>8. LoseRef \/ RepublishLost \/ Publish \/ RecoverPending \/ Push \/ remote' = remote
  BY DEF Next, Startup, Gameplay, vars, Start, EnsureRepository, AdoptNewLineage,
         AdoptSameLineage, Align, SeedFirst, SeedNewLineage, Retire, RetireFails,
         MergeSource, EnsureCheckout, RecoverDone, Prepare, Apply,
         Commit, Finish, Kill, NewRelease, Deploy, LoseVolume
<1> QED BY <1>3, <1>4, <1>5, <1>6, <1>7, <1>8

\* An answer is given when the remote has the head, and the head the commit.
LEMMA AnswerMoves ==
  ASSUME BootInv, [Next]_vars
  PROVE  \/ answered' = answered
         \/ /\ branch \in Baselines /\ branch = Target /\ branch' = branch /\ head' = head
            /\ remote'[branch] = head /\ Grown(head, branch) /\ image' = image
            /\ \E r \in Requests :
                  /\ Holds(head, Tx(r))
                  /\ answered' = answered \union {[request |-> r, lineage |-> branch]}
<1> USE DEF At, Goto, git
<1>1. ASSUME Answer(wal), IsHead(wal), wal # None, pc \in {"recover", "serving"},
             branch' = branch, head' = head, remote'[branch] = head, image' = image
      PROVE  /\ branch \in Baselines /\ branch = Target /\ branch' = branch /\ head' = head
             /\ remote'[branch] = head /\ Grown(head, branch) /\ image' = image
             /\ \E r \in Requests :
                   /\ Holds(head, Tx(r))
                   /\ answered' = answered \union {[request |-> r, lineage |-> branch]}
  <2>1. branch = Target /\ Grown(head, Target) /\ branch \in Baselines
    BY <1>1, BootFacts DEF Aligned, BootInv, Established
  <2>2. wal \in Requests /\ Holds(head, Tx(wal))
    BY <1>1, <2>1, GrownTells DEF IsHead, Holds, BootInv, Typed
  <2> QED BY <1>1, <2>1, <2>2 DEF Answer
<1>2. CASE RecoverPending /\ Deliverable /\ Answer(wal)
           /\ remote' = [remote EXCEPT ![branch] = head]
  <2>1. branch \in Baselines /\ remote'[branch] = head
    BY <1>2, BootFacts DEF RecoverPending, Aligned, BootInv, Established, Typed
  <2> QED BY <1>1, <1>2, <2>1 DEF RecoverPending, Deliverable
<1>3. CASE Finish
  BY <1>1, <1>3 DEF Finish, Delivered
<1>4. \/ RecoverPending /\ Deliverable /\ Answer(wal) /\ remote' = [remote EXCEPT ![branch] = head]
      \/ Finish
      \/ answered' = answered
  BY DEF Next, Startup, Gameplay, vars, kept, Start, EnsureRepository, AdoptNewLineage,
         AdoptSameLineage, Align, SeedFirst, SeedNewLineage, RepublishLost, Retire, RetireFails,
         MergeSource, Publish, EnsureCheckout, RecoverPending, RecoverDone, Prepare, Apply,
         Commit, Push, Kill, NewRelease, Deploy, LoseRef, LoseVolume
<1> QED BY <1>2, <1>3, <1>4

\* A checkout of the target branch stays on it, and its head only grows.
LEMMA HeadMoves ==
  ASSUME BootInv, [Next]_vars, branch = Target, pc # "retire", ~LoseVolume
  PROVE  branch' = branch /\ pc' # "retire" /\ \A x : Holds(head, x) => Holds(head', x)
<1> USE DEF At, Goto, git
<1>1. Target \in Baselines /\ Target # SourceBranch /\ Target # NoBranch
  BY BootFacts
<1>2. CASE Align \/ EnsureCheckout
  <2>1. branch' = branch /\ pc' # "retire"
    BY <1>2 DEF Align, EnsureCheckout
  <2>2. head' = head \/ (IsPrefix(head, remote[Target]) /\ head' = remote[Target])
    BY <1>2 DEF Align, EnsureCheckout, FastForwards
  <2>3. remote[Target] # None
    BY <1>2 DEF Align, EnsureCheckout, BootInv, Established, Handed
  <2>4. remote[Target] \in Seq(Commits) /\ head \in Seq(Commits)
    BY <2>3, BootFacts, GrownTells DEF BootInv, Typed
  <2> QED BY <2>1, <2>2, <2>4, PrefixKeeps
<1>3. CASE MergeSource \/ Commit
  <2>1. branch' = branch /\ pc' # "retire" /\ head \in Seq(Commits)
    BY <1>3 DEF MergeSource, Commit, BootInv, Typed
  <2>2. head' = head \/ \E c \in Commits : head' = Append(head, c)
    <3>1. Merge(image) \in Commits
      BY BootFacts DEF Merge, Commits
    <3>2. Commit => Tx(wal) \in Commits
      BY DEF Commit, BootInv, Settled, Typed, Tx, Commits
    <3> QED BY <1>3, <3>1, <3>2 DEF MergeSource, Commit
  <2>3. \A c \in Commits : \A x : Holds(head, x) => Holds(Append(head, c), x)
    BY <2>1, AppendKeeps
  <2> QED BY <2>1, <2>2, <2>3
<1>4. CASE AdoptNewLineage \/ AdoptSameLineage \/ SeedFirst \/ SeedNewLineage \/ RetireFails \/ Retire
  BY <1>1, <1>4 DEF AdoptNewLineage, AdoptSameLineage, SeedFirst, SeedNewLineage,
                    RetireFails, Retire, LineageChange
<1>5. CASE EnsureRepository
  BY <1>1, <1>5 DEF EnsureRepository
<1>6. CASE \/ Start \/ RepublishLost \/ Publish \/ RecoverPending \/ RecoverDone \/ Apply \/ Push
           \/ Finish \/ Kill \/ NewRelease \/ Deploy \/ LoseRef \/ UNCHANGED vars
           \/ \E r \in Requests : Prepare(r)
  <2>1. branch' = branch /\ pc' # "retire" /\ head' = head
    BY <1>6 DEF Start, RepublishLost, Publish, RecoverPending, RecoverDone, Apply, Push, Finish,
                Kill, NewRelease, Deploy, LoseRef, vars, Prepare
  <2> QED BY <2>1
<1> QED BY <1>2, <1>3, <1>4, <1>5, <1>6 DEF Next, Startup, Gameplay
\* A checkout that never left its lineage does not leave it unless the release does.
LEMMA CheckoutStays ==
  ASSUME BootInv, [Next]_vars, branch \in Baselines => branch = Target, pc # "retire"
  PROVE  (branch' \in Baselines => branch' = Target) /\ pc' # "retire"
<1> USE DEF At, Goto, git, kept
<1>1. CASE AdoptNewLineage \/ SeedNewLineage
  <2>1. branch \in Baselines /\ branch # Target
    BY <1>1, BootFacts
       DEF AdoptNewLineage, SeedNewLineage, LineageChange, BootInv, Established, Typed
  <2> QED BY <2>1
<1>2. CASE AdoptSameLineage \/ SeedFirst
  BY <1>2 DEF AdoptSameLineage, SeedFirst
<1>3. CASE EnsureRepository
  BY <1>3, BootFacts DEF EnsureRepository
<1>4. CASE LoseVolume
  BY <1>4, BootFacts DEF LoseVolume
<1>5. CASE \/ Start \/ Align \/ RepublishLost \/ MergeSource \/ Publish \/ EnsureCheckout
           \/ RecoverPending \/ RecoverDone \/ Gameplay
           \/ Kill \/ NewRelease \/ Deploy \/ LoseRef \/ UNCHANGED vars
  BY <1>5 DEF Start, Align, RepublishLost, MergeSource, Publish, EnsureCheckout, RecoverPending,
              RecoverDone, Gameplay, Prepare, Apply, Commit, Push, Finish, Kill, NewRelease,
              Deploy, LoseRef, vars
<1>6. CASE Retire \/ RetireFails
  BY <1>6 DEF Retire, RetireFails
<1> QED BY <1>1, <1>2, <1>3, <1>4, <1>5, <1>6 DEF Next, Startup

LEMMA AnswersStep ==
  ASSUME SecondCopy, BootInv, AnswersInv, [Next]_vars
  PROVE  AnswersInv'
<1>1. /\ Spent' /\ (RefsKept' => RefsKept) /\ (CheckoutKept' => CheckoutKept)
      /\ LoseRef => ~RefsKept'
      /\ LoseVolume => ~CheckoutKept'
      /\ Deploy /\ Target' # Target => ~CheckoutKept'
  BY SpentStep DEF AnswersInv
<1>2. Target' = Target \/ Deploy
  BY DEF Target, Next, Startup, Gameplay, vars, Start, EnsureRepository, AdoptNewLineage,
         AdoptSameLineage, Align, SeedFirst, SeedNewLineage, RepublishLost, Retire, RetireFails,
         MergeSource, Publish, EnsureCheckout, RecoverPending, RecoverDone, Prepare, Apply,
         Commit, Push, Finish, Kill, NewRelease, LoseRef, LoseVolume
<1>3. answered \subseteq [request : Requests, lineage : Baselines]
  BY DEF AnswersInv, AnswersHeld
<1>4. ASSUME NEW x \in answered'
      PROVE  \/ x \in answered
             \/ /\ branch \in Baselines /\ branch = Target /\ branch' = branch /\ head' = head
                /\ remote'[branch] = head /\ Grown(head, branch) /\ image' = image
                /\ x.lineage = branch /\ Holds(head, Tx(x.request)) /\ x.request \in Requests
                /\ x \in [request : Requests, lineage : Baselines]
  BY <1>4, AnswerMoves
<1>5. answered' \subseteq [request : Requests, lineage : Baselines]
  BY <1>3, <1>4
<1>6. ASSUME RefsKept', NEW x \in answered'
      PROVE  remote'[x.lineage] # None /\ Holds(remote'[x.lineage], Tx(x.request))
  <2>1. CASE x \in answered
    <3>1. /\ remote[x.lineage] # None /\ Holds(remote[x.lineage], Tx(x.request))
          /\ x.lineage \in Baselines
      BY <1>1, <1>3, <1>6, <2>1 DEF AnswersInv, AnswersHeld
    <3>2. PICK b \in Baselines : b = x.lineage
      BY <3>1
    <3>3. \/ remote'[b] = remote[b]
          \/ /\ remote'[b] = head /\ Grown(head, b)
             /\ remote[b] # None => \A c : Holds(remote[b], c) => Holds(head, c)
      <4>1. ~LoseRef
        BY <1>1, <1>6
      <4> QED BY <4>1, RemoteMoves
    <3>4. Grown(head, b) => head # None
      BY GrownTells
    <3> QED BY <3>1, <3>2, <3>3, <3>4
  <2>2. CASE x \notin answered
    <3>1. /\ remote'[branch] = head /\ Grown(head, branch) /\ x.lineage = branch
          /\ Holds(head, Tx(x.request))
      BY <1>4, <2>2
    <3>2. head # None
      BY <3>1, GrownTells
    <3> QED BY <3>1, <3>2
  <2> QED BY <2>1, <2>2
<1>7. ASSUME CheckoutKept'
      PROVE  /\ branch' \in Baselines => branch' = Target'
             /\ pc' # "retire"
             /\ \A x \in answered' :
                   /\ branch' = x.lineage /\ Holds(head', Tx(x.request))
                   /\ remote'[x.lineage] # None => Holds(remote'[x.lineage], Tx(x.request))
  <2>1. /\ CheckoutKept /\ Target' = Target /\ ~LoseVolume
        /\ branch \in Baselines => branch = Target
        /\ pc # "retire"
    <3>1. CheckoutKept /\ ~LoseVolume
      BY <1>1, <1>7
    <3>2. Target' = Target
      BY <1>1, <1>2, <1>7
    <3>3. (branch \in Baselines => branch = Target) /\ pc # "retire"
      BY <3>1 DEF AnswersInv, AnswersHeld
    <3> QED BY <3>1, <3>2, <3>3
  <2>2. (branch' \in Baselines => branch' = Target') /\ pc' # "retire"
    BY <2>1, CheckoutStays
  <2>3. ASSUME NEW x \in answered'
        PROVE  /\ branch' = x.lineage /\ Holds(head', Tx(x.request))
               /\ remote'[x.lineage] # None => Holds(remote'[x.lineage], Tx(x.request))
    <3>1. CASE x \in answered
      <4>1. /\ branch = x.lineage /\ Holds(head, Tx(x.request)) /\ x.lineage \in Baselines
            /\ remote[x.lineage] # None => Holds(remote[x.lineage], Tx(x.request))
        BY <1>3, <2>1, <3>1 DEF AnswersInv, AnswersHeld
      <4>2. branch' = branch /\ Holds(head', Tx(x.request))
        BY <2>1, <4>1, HeadMoves
      <4>3. PICK b \in Baselines : b = x.lineage
        BY <4>1
      <4>4. \/ remote'[b] = remote[b] \/ remote'[b] = None \/ remote'[b] = head
        BY RemoteMoves
      <4> QED BY <4>1, <4>2, <4>3, <4>4
    <3>2. CASE x \notin answered
      BY <1>4, <3>2
    <3> QED BY <3>1, <3>2
  <2> QED BY <2>2, <2>3
<1>8. AnswersHeld'
  BY <1>5, <1>6, <1>7 DEF AnswersHeld
<1> QED BY <1>1, <1>8 DEF AnswersInv

\* As long as one copy of a campaign is never lost, the remote or the checkout, no
\* answered request disappears from its lineage through kills, redeployments and
\* recoveries (the receipts of tx/campaign_coordinator.py, _retire_recovery_store and
\* the alignment of branch_bootstrap.py); without the hypothesis nothing could keep it.
THEOREM AnsweredIsKept == SecondCopy => (Spec => []AnsweredKept)
<1> SUFFICES ASSUME SecondCopy PROVE Spec => []AnsweredKept
  OBVIOUS
<1>1. Init => AnswersInv
  <2> SUFFICES ASSUME Init PROVE AnswersInv
    OBVIOUS
  <2>1. Spent
    BY DEF Init, Spent, RefsKept, CheckoutKept, Hazards
  <2>2. AnswersHeld
    BY ReleasesAssumption DEF Init, AnswersHeld
  <2> QED BY <2>1, <2>2 DEF AnswersInv
<1>2. BootInv /\ AnswersInv /\ [Next]_vars => AnswersInv'
  BY AnswersStep
<1>3. AnswersInv => AnsweredKept
  BY DEF AnswersInv, AnswersHeld, Spent, AnsweredKept
<1> QED BY <1>1, <1>2, <1>3, BootInvariant, PTL DEF Spec

=============================================================================
