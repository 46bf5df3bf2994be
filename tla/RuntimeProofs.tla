---------------------------- MODULE RuntimeProofs ----------------------------
(***************************************************************************)
(* Proofs about the runtime directory: the fetches into it, for any number *)
(* of runs at once, with any options, and files of any size; and the       *)
(* processes of the softnpu zone that are started from it, for any number  *)
(* of them.  The first part speaks of the steps of Artifacts alone, which  *)
(* the second shows every step of Runtime to be.                           *)
(***************************************************************************)
EXTENDS Runtime, SequenceTheorems, TLAPS

-----------------------------------------------------------------------------
(* The invariant.                                                          *)

\* The commit that run c may have resolved for repository r.
Could(c, r, t) ==
  IF opt[c][r] = Main THEN t \in Commits /\ before[1][r] <= t /\ t <= heads[r]
                      ELSE t = opt[c][r]

\* What a run has resolved, and what it has been answered.
RevIsRight(c, r) ==
  /\ apc[c] \in {"compare", "open"} => Could(c, r, rev[c])
  /\ apc[c] = "transfer" =>
       \E t \in Commits : /\ Could(c, r, t)
                          /\ rev[c] = t \/ (rev[c] = Page /\ t \notin before[2][r])

RevsAreRight == \A c \in Creates : RevIsRight(c, RepoOf[File(c)])

\* Run c has been through file f, or is writing it; the latter only.
Past(c, f) ==
  \/ apc[c] = "fetched"
  \/ apc[c] \in Fetching /\ \E i \in 1..nth[c] : /\ f = Order[i]
                                                 /\ i < nth[c] \/ apc[c] = "transfer"
Sending(c, f) == apc[c] = "transfer" /\ File(c) = f

\* Every piece of file f of commit k is in its place, or has still to be
\* written by somebody.
Filling(f, k) ==
  /\ Len(disk[f]) <= Size[k]
  /\ \A i \in 1..Size[k] : \/ i <= Len(disk[f]) /\ disk[f][i] = <<k, i>>
                           \/ \E c \in group : Sending(c, f) /\ off[c] < i

\* The group wants commit k of file f, and none of it has broken off.
Good(f, k) ==
  /\ Aimed(RepoOf[f], k)
  /\ \A c \in group : apc[c] \in Fetching \cup {"fetched"}

Histories ==
  /\ before[1] \in [Repos -> Commits] /\ before[2] \in [Repos -> SUBSET Commits]
  /\ \A r \in Repos : before[1][r] <= heads[r] /\ before[2][r] \subseteq built[r]
  /\ \A c \in Creates : apc[c] = "idle" => c \notin group /\ nth[c] = 1
  /\ \A c \in Creates : apc[c] # "transfer" => off[c] = 0
  /\ \A c \in Creates : apc[c] = "transfer" => off[c] <= Len(Whole(rev[c]))

\* A run that is alone opens a file only if it is not what it wants, and has
\* written all that is in it.
AloneInv ==
  \A c \in Creates : group = {c} =>
    /\ apc[c] = "open" => \A k \in Commits : Aimed(RepoOf[File(c)], k)
                                               => disk[File(c)] # Whole(k)
    /\ apc[c] = "transfer" => Len(disk[File(c)]) = off[c]

\* What a run that is alone is through with is as it should be, and what it is
\* writing is of the answer it has.
Through(c, i) == apc[c] = "fetched" \/ (apc[c] \in Fetching /\ i < nth[c])
LoneInv ==
  \A c \in Creates : group = {c} =>
    /\ \A i \in 1..3 : Through(c, i) => Outcome(c, Order[i])
    /\ apc[c] = "transfer" =>
         \A i \in 1..off[c] : disk[File(c)][i] = Whole(rev[c])[i]

FetchInv ==
  /\ ArtifactsTypeOK
  /\ Histories
  /\ RevsAreRight
  /\ \A f \in Files, k \in Commits :
       (Good(f, k) /\ \E c \in group : Past(c, f)) => Filling(f, k)
  /\ AloneInv
  /\ LoneInv

-----------------------------------------------------------------------------
(* The files, and what is in them.                                         *)

\* The three files, in their order, each of one repository.
LEMMA OrderFacts ==
  /\ DOMAIN Order = 1..3 /\ Len(Order) = 3
  /\ Files = {"softnpu", "asic_program.so", "scadm"}
  /\ \A i, j \in 1..3 : Order[i] = Order[j] => i = j
  /\ \A i \in 1..3 : Order[i] \in Files
  /\ \A f \in Files : RepoOf[f] \in Repos
<1>1. DOMAIN Order = 1..3 /\ Len(Order) = 3
  BY DEF Order
<1>2. Files = {"softnpu", "asic_program.so", "scadm"}
  BY <1>1 DEF Order, Files
<1>3. \A i, j \in 1..3 : Order[i] = Order[j] => i = j
  BY DEF Order
<1>4. \A i \in 1..3 : Order[i] \in Files
  BY <1>1 DEF Files
<1>5. \A f \in Files : RepoOf[f] \in Repos
  BY <1>2 DEF RepoOf, Repos
<1> QED BY <1>1, <1>2, <1>3, <1>4, <1>5

\* The file a run is at is one of them.
LEMMA FileType ==
  ASSUME ArtifactsTypeOK, NEW c \in Creates
  PROVE  /\ nth[c] \in 1..3 /\ File(c) = Order[nth[c]]
         /\ File(c) \in Files /\ RepoOf[File(c)] \in Repos
BY OrderFacts DEF ArtifactsTypeOK, File

\* Commits are numbers from 1, and their files have pieces.
LEMMA SizeFacts ==
  /\ Commits = 1..Len(Size) /\ Len(Size) \in Nat /\ 1 \in Commits
  /\ \A k \in Commits : Size[k] \in Nat \ {0}
  /\ Page \notin Commits /\ Main \notin Commits
<1>1. Size \in Seq(Nat \ {0}) /\ Size # <<>>
  BY ArtifactsAssumption
<1>2. Len(Size) \in Nat /\ Commits = 1..Len(Size) /\ Len(Size) # 0
  BY <1>1 DEF Commits
<1>3. \A k \in Commits : Size[k] \in Nat \ {0}
  BY <1>1, <1>2
<1> QED BY <1>2, <1>3 DEF Page, Main

\* The pieces of a whole file, and of a page.
LEMMA WholeType ==
  ASSUME NEW k \in {Page} \cup Commits
  PROVE  /\ Whole(k) \in Seq(Pieces)
         /\ Len(Whole(k)) \in Nat \ {0}
         /\ k \in Commits => Len(Whole(k)) = Size[k]
         /\ \A i \in 1..Len(Whole(k)) : Whole(k)[i] = <<k, i>>
<1> DEFINE n == IF k = Page THEN 1 ELSE Size[k]
<1>1. n \in Nat \ {0}
  BY SizeFacts
<1>2. k \in Commits => n = Size[k]
  BY SizeFacts
<1>3. Whole(k) = [i \in 1..n |-> <<k, i>>]
  BY DEF Whole
<1> HIDE DEF n
<1>4. Whole(k) \in [1..n -> Pieces]
  BY <1>1, <1>3 DEF Pieces
<1>5. Whole(k) \in Seq(Pieces) /\ Len(Whole(k)) = n
  BY <1>1, <1>4, SeqDef
<1> QED BY <1>1, <1>2, <1>3, <1>5

\* A write puts its piece in its place, and leaves the others in theirs.
LEMMA PutPiece ==
  ASSUME NEW s \in Seq(Pieces), NEW n \in Nat, NEW p \in Pieces
  PROVE  /\ Put(s, n, p) \in Seq(Pieces)
         /\ Len(Put(s, n, p)) = IF n < Len(s) THEN Len(s) ELSE n + 1
         /\ Put(s, n, p)[n + 1] = p
         /\ \A i \in 1..Len(s) : i # n + 1 => Put(s, n, p)[i] = s[i]
<1> DEFINE m == IF n < Len(s) THEN Len(s) ELSE n + 1
<1>1. Len(s) \in Nat /\ m \in Nat /\ n + 1 \in 1..m /\ Len(s) <= m
  OBVIOUS
<1>2. Put(s, n, p) = [i \in 1..m |->
        IF i = n + 1 THEN p ELSE IF i \in DOMAIN s THEN s[i] ELSE Hole]
  BY DEF Put
<1> HIDE DEF m
<1>3. Hole \in Pieces
  BY DEF Hole, Pieces, Page
<1>4. DOMAIN s = 1..Len(s) /\ \A i \in DOMAIN s : s[i] \in Pieces
  OBVIOUS
<1>5. Put(s, n, p) \in [1..m -> Pieces]
  BY <1>2, <1>3, <1>4
<1>6. Put(s, n, p) \in Seq(Pieces) /\ Len(Put(s, n, p)) = m
  BY <1>1, <1>5, SeqDef
<1>7. Put(s, n, p)[n + 1] = p
  BY <1>1, <1>2
<1>8. ASSUME NEW i \in 1..Len(s), i # n + 1
      PROVE  Put(s, n, p)[i] = s[i]
  BY <1>1, <1>2, <1>4, <1>8
<1> QED BY <1>6, <1>7, <1>8 DEF m

-----------------------------------------------------------------------------
(* Types and histories.                                                    *)

ArtifactsStep ==
  \/ \E c \in Creates : Begin(c) \/ FetchStep(c) \/ Break(c)
  \/ \E r \in Repos : Push(r) \/ Publish(r)

\* On to the next file.
LEMMA NextFileType ==
  ASSUME ArtifactsTypeOK, NEW c \in Creates, NextFile(c)
  PROVE  /\ apc' \in [Creates -> Fetching \cup {"idle", "fetched", "broken"}]
         /\ nth' \in [Creates -> DOMAIN Order]
         /\ rev' \in [Creates -> {Page} \cup Commits]
         /\ off' \in [Creates -> Nat]
         /\ \A d \in Creates : d # c => /\ apc'[d] = apc[d] /\ nth'[d] = nth[d]
                                        /\ rev'[d] = rev[d] /\ off'[d] = off[d]
         /\ off'[c] = 0
         /\ \/ nth[c] = 3 /\ nth'[c] = 1 /\ apc'[c] = "fetched"
            \/ nth[c] < 3 /\ nth'[c] = nth[c] + 1 /\ apc'[c] = "url"
<1> USE DEF ArtifactsTypeOK, NextFile
<1>1. nth[c] \in 1..3 /\ DOMAIN Order = 1..3 /\ Len(Order) = 3
  BY OrderFacts
<1>2. (IF nth[c] = 3 THEN 1 ELSE nth[c] + 1) \in 1..3
  BY <1>1
<1>3. nth' \in [Creates -> DOMAIN Order]
  BY <1>1, <1>2
<1>4. apc' \in [Creates -> Fetching \cup {"idle", "fetched", "broken"}]
  BY DEF Fetching
<1> QED BY <1>1, <1>3, <1>4

\* Every step keeps the types.
LEMMA FetchType ==
  ASSUME ArtifactsTypeOK, ArtifactsStep
  PROVE  ArtifactsTypeOK'
<1> USE DEF ArtifactsTypeOK, Fetching
<1>2. ASSUME NEW c \in Creates, Begin(c)
      PROVE  ArtifactsTypeOK'
  BY <1>2 DEF Begin, world, AtRest
<1>3. ASSUME NEW c \in Creates, Url(c)
      PROVE  ArtifactsTypeOK'
  <2>1. Resolved(c, RepoOf[File(c)]) \in Commits
    <3>1. RepoOf[File(c)] \in Repos
      BY FileType
    <3> QED BY <3>1, ArtifactsAssumption DEF Resolved
  <2> QED BY <1>3, <2>1 DEF Url, world
<1>4. ASSUME NEW c \in Creates, Compare(c)
      PROVE  ArtifactsTypeOK'
  <2>1. CASE NextFile(c)
    BY <1>4, <2>1, NextFileType DEF Compare, world
  <2>2. CASE ~NextFile(c)
    BY <1>4, <2>2 DEF Compare, world
  <2> QED BY <2>1, <2>2
<1>5. ASSUME NEW c \in Creates, Open(c)
      PROVE  ArtifactsTypeOK'
  <2>1. Answer(RepoOf[File(c)], rev[c]) \in {Page} \cup Commits
    BY DEF Answer
  <2>2. rev' \in [Creates -> {Page} \cup Commits]
    BY <1>5, <2>1 DEF Open, Request
  <2>3. disk' \in [Files -> Seq(Pieces)]
    BY <1>5, EmptySeq DEF Open
  <2> QED BY <1>5, <2>2, <2>3 DEF Open, Request, world
<1>6. ASSUME NEW c \in Creates, Receive(c)
      PROVE  ArtifactsTypeOK'
  <2> DEFINE k == rev[c]
             n == off[c]
  <2>1. k \in {Page} \cup Commits /\ n \in Nat /\ n < Len(Whole(k))
    BY <1>6 DEF Receive
  <2>2. Whole(k) \in Seq(Pieces) /\ Len(Whole(k)) \in Nat
    BY <2>1, WholeType
  <2>3. Whole(k)[n + 1] \in Pieces
    BY <2>1, <2>2
  <2>4. File(c) \in Files /\ disk[File(c)] \in Seq(Pieces)
    BY FileType
  <2>5. Put(disk[File(c)], n, Whole(k)[n + 1]) \in Seq(Pieces)
    BY <2>1, <2>3, <2>4, PutPiece
  <2>6. disk' \in [Files -> Seq(Pieces)]
    BY <1>6, <2>4, <2>5 DEF Receive
  <2>7. off' \in [Creates -> Nat]
    BY <1>6 DEF Receive
  <2> QED BY <1>6, <2>6, <2>7 DEF Receive, world
<1>7. ASSUME NEW c \in Creates, Received(c)
      PROVE  ArtifactsTypeOK'
  BY <1>7, NextFileType DEF Received, world
<1>8. ASSUME NEW c \in Creates, Break(c)
      PROVE  ArtifactsTypeOK'
  BY <1>8, OrderFacts DEF Break, world
<1>9. ASSUME NEW r \in Repos, Push(r)
      PROVE  ArtifactsTypeOK'
  <2>1. heads' \in [Repos -> Commits]
    BY <1>9 DEF Push
  <2> QED BY <1>9, <2>1 DEF Push, runs
<1>10. ASSUME NEW r \in Repos, Publish(r)
      PROVE  ArtifactsTypeOK'
  <2>1. built' \in [Repos -> SUBSET Commits]
    BY <1>10 DEF Publish
  <2> QED BY <1>10, <2>1 DEF Publish, runs
<1> QED
  BY <1>2, <1>3, <1>4, <1>5, <1>6, <1>7, <1>8, <1>9, <1>10 DEF ArtifactsStep, FetchStep

\* Heads only move on, builds stay, and what the group is measured by is set
\* when a run begins with the directory at rest.
LEMMA FetchShape ==
  ASSUME FetchInv, ArtifactsStep
  PROVE  /\ opt' = opt
         /\ \A r \in Repos : heads[r] <= heads'[r] /\ built[r] \subseteq built'[r]
         /\ \/ before' = before /\ group' = group
            \/ \E c \in Creates : /\ Begin(c)
                                  /\ before' = IF AtRest THEN world ELSE before
                                  /\ group' = {c} \cup (IF AtRest THEN {} ELSE group)
<1>1. ArtifactsTypeOK
  BY DEF FetchInv
<1>2. \A r \in Repos : heads[r] \in Int
  BY <1>1, SizeFacts DEF ArtifactsTypeOK
<1>3. ASSUME NEW c \in Creates, Begin(c)
      PROVE  /\ opt' = opt /\ heads' = heads /\ built' = built
             /\ before' = IF AtRest THEN world ELSE before
             /\ group' = {c} \cup (IF AtRest THEN {} ELSE group)
  BY <1>3 DEF Begin, world
<1>4. ASSUME NEW c \in Creates, FetchStep(c) \/ Break(c)
      PROVE  /\ opt' = opt /\ heads' = heads /\ built' = built
             /\ before' = before /\ group' = group
  BY <1>4 DEF FetchStep, Url, Compare, Open, Receive, Received, Break, world
<1>5. ASSUME NEW r \in Repos, Push(r)
      PROVE  /\ opt' = opt /\ built' = built /\ before' = before /\ group' = group
             /\ \A q \in Repos : heads[q] <= heads'[q]
  <2>1. heads' = [heads EXCEPT ![r] = @ + 1] /\ heads \in [Repos -> Commits]
    BY <1>1, <1>5 DEF Push, ArtifactsTypeOK
  <2> QED BY <1>2, <1>5, <2>1 DEF Push, runs
<1>6. ASSUME NEW r \in Repos, Publish(r)
      PROVE  /\ opt' = opt /\ heads' = heads /\ before' = before /\ group' = group
             /\ \A q \in Repos : built[q] \subseteq built'[q]
  <2>1. built' = [built EXCEPT ![r] = @ \cup {heads[r]}] /\ built \in [Repos -> SUBSET Commits]
    BY <1>1, <1>6 DEF Publish, ArtifactsTypeOK
  <2> QED BY <1>6, <2>1 DEF Publish, runs
<1> QED BY <1>2, <1>3, <1>4, <1>5, <1>6 DEF ArtifactsStep

\* The steps of one run leave the other runs alone.
LEMMA OthersStay ==
  ASSUME FetchInv, NEW c \in Creates, Begin(c) \/ FetchStep(c) \/ Break(c),
         NEW d \in Creates, d # c
  PROVE  apc'[d] = apc[d] /\ nth'[d] = nth[d] /\ rev'[d] = rev[d] /\ off'[d] = off[d]
<1>1. ArtifactsTypeOK
  BY DEF FetchInv
<1>2. CASE Begin(c) \/ Url(c) \/ Open(c) \/ Receive(c) \/ Break(c)
  BY <1>1, <1>2 DEF ArtifactsTypeOK, Begin, Url, Open, Request, Receive, Break
<1>3. CASE Compare(c) \/ Received(c)
  BY <1>1, <1>3 DEF ArtifactsTypeOK, Compare, Received, NextFile
<1> QED BY <1>2, <1>3 DEF FetchStep

\* What the group is said to want, it has wanted.
LEMMA AimedBefore ==
  ASSUME FetchInv, ArtifactsStep, NEW r \in Repos, NEW k \in Commits, Aimed(r, k)',
         ~AtRest \/ group' = group
  PROVE  Aimed(r, k)
<1>1. opt' = opt /\ heads[r] <= heads'[r]
  BY FetchShape
<1>2. heads[r] \in Int /\ heads'[r] \in Int /\ before[1][r] \in Int /\ before[1][r] <= heads[r]
  BY FetchType, SizeFacts DEF FetchInv, ArtifactsTypeOK, Histories
<1>3. (group' = group /\ before' = before) \/ ~AtRest
  <2>1. CASE AtRest
    <3>1. SUFFICES before' = before
      BY <2>1
    <3>2. ASSUME NEW c \in Creates, Begin(c)
          PROVE  group' # group
      BY <2>1, <3>2 DEF Begin, FetchInv, Histories
    <3> QED BY <2>1, <3>2, FetchShape
  <2> QED BY <2>1
<1>4. before' = before /\ group \subseteq group'
  BY <1>3, FetchShape
<1>5. Aims(r) = {k}
  <2>1. ~AtRest => \E c \in group : TRUE
    BY DEF AtRest, FetchInv, ArtifactsTypeOK
  <2>2. {IF opt[c][r] = Main THEN before[1][r] ELSE opt[c][r] : c \in group'} = {k}
    BY <1>1, <1>4 DEF Aimed, Aims
  <2> QED BY <1>3, <1>4, <2>1, <2>2 DEF Aims
<1>6. Steady(r)
  <2>1. (\E c \in group' : opt[c][r] = Main) => heads'[r] = before[1][r]
    BY <1>1, <1>4 DEF Aimed, Steady
  <2> QED BY <1>1, <1>2, <1>4, <2>1 DEF Steady
<1> QED BY <1>4, <1>5, <1>6 DEF Aimed

\* Every step keeps the histories.
LEMMA FetchHistories ==
  ASSUME FetchInv, ArtifactsStep
  PROVE  Histories'
<1>1. ArtifactsTypeOK /\ Histories /\ ArtifactsTypeOK'
  BY FetchType DEF FetchInv
<1>2. \A r \in Repos : heads[r] \in Int /\ heads'[r] \in Int
  BY <1>1, SizeFacts DEF ArtifactsTypeOK
<1>3. /\ before'[1] \in [Repos -> Commits] /\ before'[2] \in [Repos -> SUBSET Commits]
      /\ \A r \in Repos : before'[1][r] <= heads'[r] /\ before'[2][r] \subseteq built'[r]
  <2>1. CASE before' = before
    <3>1. \A r \in Repos : /\ before[1][r] \in Int /\ before[1][r] <= heads[r]
                           /\ before[2][r] \subseteq built[r]
      BY <1>1, SizeFacts DEF Histories
    <3> QED BY <1>1, <1>2, <2>1, <3>1, FetchShape DEF Histories
  <2>2. CASE before' = world
    BY <1>1, <1>2, <2>2, FetchShape DEF world, ArtifactsTypeOK
  <2> QED BY <2>1, <2>2, FetchShape
<1> DEFINE Kept(d) == /\ apc'[d] = "idle" => d \notin group' /\ nth'[d] = 1
                      /\ apc'[d] # "transfer" => off'[d] = 0
                      /\ apc'[d] = "transfer" => off'[d] <= Len(Whole(rev[d]))'
<1>4. ASSUME NEW d \in Creates
      PROVE  Kept(d)
  <2>1. /\ apc[d] = "idle" => d \notin group /\ nth[d] = 1
        /\ apc[d] # "transfer" => off[d] = 0
        /\ apc[d] = "transfer" => off[d] <= Len(Whole(rev[d]))
    BY <1>1 DEF Histories
  <2>2. CASE ~\E c \in Creates : Begin(c) \/ FetchStep(c) \/ Break(c)
    <3>1. UNCHANGED <<runs, group>>
      BY <2>2 DEF ArtifactsStep, Push, Publish
    <3> QED BY <2>1, <3>1 DEF runs
  <2>3. ASSUME NEW c \in Creates, Begin(c) \/ FetchStep(c) \/ Break(c), c # d
        PROVE  Kept(d)
    <3>1. apc'[d] = apc[d] /\ nth'[d] = nth[d] /\ rev'[d] = rev[d] /\ off'[d] = off[d]
      BY <2>3, OthersStay
    <3>2. d \in group' => d \in group
      BY <2>3 DEF Begin, FetchStep, Url, Compare, Open, Receive, Received, Break
    <3>3. Len(Whole(rev[d]))' = Len(Whole(rev[d]))
      BY <3>1 DEF Whole
    <3> QED BY <2>1, <3>1, <3>2, <3>3
  <2>4. CASE Begin(d) \/ Url(d)
    BY <1>1, <2>1, <2>4 DEF Begin, Url, ArtifactsTypeOK
  <2>5. CASE Break(d)
    BY <1>1, <2>1, <2>5 DEF Break, ArtifactsTypeOK
  <2>6. CASE Compare(d) /\ ~NextFile(d)
    BY <1>1, <2>1, <2>6 DEF Compare, ArtifactsTypeOK
  <2>7. CASE NextFile(d)
    BY <1>1, <2>7, NextFileType
  <2>8. CASE Open(d)
    <3>1. rev'[d] \in {Page} \cup Commits
      BY <1>1 DEF ArtifactsTypeOK
    <3>2. Len(Whole(rev'[d])) \in Nat
      BY <3>1, WholeType
    <3>3. Len(Whole(rev[d]))' = Len(Whole(rev'[d]))
      BY DEF Whole
    <3>4. apc'[d] = "transfer" /\ off'[d] = 0
      BY <1>1, <2>1, <2>8 DEF Open, Request, ArtifactsTypeOK
    <3> QED BY <3>2, <3>3, <3>4
  <2>9. CASE Receive(d)
    <3>1. rev[d] \in {Page} \cup Commits /\ off[d] \in Nat
      BY <1>1 DEF ArtifactsTypeOK
    <3>2. Len(Whole(rev[d])) \in Nat
      BY <3>1, WholeType
    <3>3. Len(Whole(rev[d]))' = Len(Whole(rev[d]))
      BY <2>9 DEF Receive, Whole
    <3>4. apc'[d] = "transfer" /\ off'[d] = off[d] + 1 /\ off[d] < Len(Whole(rev[d]))
      BY <1>1, <2>9 DEF Receive, ArtifactsTypeOK
    <3> QED BY <3>1, <3>2, <3>3, <3>4
  <2> QED
    BY <2>2, <2>3, <2>4, <2>5, <2>6, <2>7, <2>8, <2>9 DEF FetchStep, Received
<1> QED BY <1>3, <1>4 DEF Histories

\* What a run that is fetching may have resolved, it may still.
LEMMA CouldStays ==
  ASSUME FetchInv, ArtifactsStep, NEW d \in Creates, apc[d] \in Fetching,
         NEW r \in Repos, NEW t, Could(d, r, t)
  PROVE  Could(d, r, t)' /\ before' = before
<1>1. ~AtRest
  BY DEF AtRest
<1>2. before' = before /\ opt' = opt /\ heads[r] <= heads'[r]
  BY <1>1, FetchShape
<1>3. /\ heads[r] \in Int /\ heads'[r] \in Int /\ before[1][r] \in Int
      /\ \A k \in Commits : k \in Int
  BY FetchType, SizeFacts DEF FetchInv, ArtifactsTypeOK, Histories
<1> QED BY <1>2, <1>3 DEF Could

\* What is right of a run that stays where it is, stays right.
LEMMA RevStays ==
  ASSUME FetchInv, ArtifactsStep, NEW d \in Creates, NEW r \in Repos, RevIsRight(d, r),
         apc'[d] = apc[d], rev'[d] = rev[d]
  PROVE  RevIsRight(d, r)'
<1>1. CASE apc[d] \in {"compare", "open"}
  <2>1. PICK t : t = rev[d] /\ Could(d, r, t)
    BY <1>1 DEF RevIsRight
  <2>2. Could(d, r, t)'
    BY <1>1, <2>1, CouldStays DEF Fetching
  <2> QED BY <1>1, <2>1, <2>2 DEF RevIsRight, Could
<1>2. CASE apc[d] = "transfer"
  <2>1. PICK t \in Commits : /\ Could(d, r, t)
                             /\ rev[d] = t \/ (rev[d] = Page /\ t \notin before[2][r])
    BY <1>2 DEF RevIsRight
  <2>2. Could(d, r, t)' /\ before' = before
    BY <1>2, <2>1, CouldStays DEF Fetching
  <2> QED BY <1>2, <2>1, <2>2 DEF RevIsRight
<1> QED BY <1>1, <1>2 DEF RevIsRight

\* Every step keeps what runs have resolved right.
LEMMA FetchRevs ==
  ASSUME FetchInv, ArtifactsStep
  PROVE  RevsAreRight'
<1>1. ArtifactsTypeOK /\ Histories /\ RevsAreRight /\ ArtifactsTypeOK'
  BY FetchType DEF FetchInv
<1>2. ASSUME NEW d \in Creates
      PROVE  RevIsRight(d, RepoOf[File(d)])'
  <2>1. PICK r \in Repos : r = RepoOf[File(d)] /\ RevIsRight(d, r)
    BY <1>1, FileType DEF RevsAreRight
  <2>2. apc'[d] \notin {"compare", "open", "transfer"} => RevIsRight(d, RepoOf[File(d)])'
    BY DEF RevIsRight
  <2>3. ASSUME nth'[d] = nth[d], RevIsRight(d, r)'
        PROVE  RevIsRight(d, RepoOf[File(d)])'
    BY <2>1, <2>3 DEF File
  <2>4. CASE apc'[d] = apc[d] /\ nth'[d] = nth[d] /\ rev'[d] = rev[d]
    BY <2>1, <2>3, <2>4, RevStays
  <2>5. CASE ~\E c \in Creates : Begin(c) \/ FetchStep(c) \/ Break(c)
    BY <2>4, <2>5 DEF ArtifactsStep, Push, Publish, runs
  <2>6. ASSUME NEW c \in Creates, Begin(c) \/ FetchStep(c) \/ Break(c), c # d
        PROVE  RevIsRight(d, RepoOf[File(d)])'
    BY <2>4, <2>6, OthersStay
  <2>7. CASE Begin(d) \/ Break(d)
    BY <1>1, <2>2, <2>7 DEF Begin, Break, ArtifactsTypeOK
  <2>8. CASE NextFile(d)
    BY <1>1, <2>2, <2>8, NextFileType
  <2>9. CASE Url(d)
    <3>1. /\ nth' = nth /\ apc'[d] = "compare" /\ rev'[d] = Resolved(d, r)
          /\ UNCHANGED <<opt, heads, before>>
      BY <1>1, <2>1, <2>9 DEF Url, ArtifactsTypeOK, world
    <3>2. heads[r] \in Int /\ heads[r] \in Commits /\ before[1][r] <= heads[r]
      BY <1>1, SizeFacts DEF ArtifactsTypeOK, Histories
    <3>3. Could(d, r, rev[d])'
      BY <3>1, <3>2 DEF Could, Resolved
    <3> QED BY <2>3, <3>1, <3>3 DEF RevIsRight
  <2>10. CASE Compare(d) /\ ~NextFile(d)
    <3>1. /\ nth' = nth /\ apc'[d] = "open" /\ rev'[d] = rev[d] /\ apc[d] = "compare"
          /\ UNCHANGED <<opt, heads, before>>
      BY <1>1, <2>10 DEF Compare, ArtifactsTypeOK, world
    <3> QED BY <2>1, <2>3, <3>1 DEF RevIsRight, Could
  <2>11. CASE Open(d)
    <3>1. /\ nth' = nth /\ apc'[d] = "transfer" /\ rev'[d] = Answer(r, rev[d])
          /\ apc[d] = "open" /\ UNCHANGED <<opt, heads, before>>
      BY <1>1, <2>1, <2>11 DEF Open, Request, ArtifactsTypeOK, world
    <3>2. PICK t : t = rev[d] /\ Could(d, r, t)
      BY <2>1, <3>1 DEF RevIsRight
    <3>3. opt[d][r] \in {Main} \cup Commits
      BY <1>1, ArtifactsAssumption DEF ArtifactsTypeOK
    <3>4. t \in Commits
      BY <3>2, <3>3 DEF Could
    <3>5. Could(d, r, t)'
      BY <3>1, <3>2 DEF Could
    <3>6. rev'[d] = t \/ (rev'[d] = Page /\ t \notin before'[2][r])
      BY <1>1, <3>1, <3>2 DEF Answer, Histories
    <3> QED BY <2>3, <3>1, <3>4, <3>5, <3>6 DEF RevIsRight
  <2>12. CASE Receive(d)
    BY <2>4, <2>12 DEF Receive
  <2> QED
    BY <2>5, <2>6, <2>7, <2>8, <2>9, <2>10, <2>11, <2>12 DEF FetchStep, Received
<1> QED BY <1>2 DEF RevsAreRight

-----------------------------------------------------------------------------
(* What is in the files.                                                   *)

\* What a run of the group wants is what it resolves, and that is built.
LEMMA Wanted ==
  ASSUME FetchInv, NEW c \in group, NEW r \in Repos, NEW k \in Commits, Aimed(r, k)
  PROVE  /\ Resolved(c, r) = k /\ Answer(r, k) = k
         /\ \A t : Could(c, r, t) => t = k
<1>1. ArtifactsTypeOK /\ Histories
  BY DEF FetchInv
<1>2. (IF opt[c][r] = Main THEN before[1][r] ELSE opt[c][r]) = k
  BY DEF Aimed, Aims
<1>3. k \in built[r]
  BY <1>1 DEF Aimed, Histories
<1>4. opt[c][r] = Main => heads[r] = k /\ before[1][r] = k
  BY <1>2 DEF Aimed, Steady
<1>5. \A t \in Commits : t \in Int
  BY SizeFacts
<1> QED BY <1>2, <1>3, <1>4, <1>5 DEF Resolved, Answer, Could

\* It is sent that.
LEMMA Answered ==
  ASSUME FetchInv, NEW c \in group, NEW k \in Commits, Aimed(RepoOf[File(c)], k),
         apc[c] = "transfer"
  PROVE  rev[c] = k
<1>1. ArtifactsTypeOK /\ c \in Creates
  BY DEF FetchInv, ArtifactsTypeOK
<1>2. PICK r \in Repos : r = RepoOf[File(c)]
  BY <1>1, FileType
<1>3. RevIsRight(c, r)
  BY <1>1, <1>2 DEF FetchInv, RevsAreRight
<1>4. PICK t \in Commits : /\ Could(c, r, t)
                           /\ rev[c] = t \/ (rev[c] = Page /\ t \notin before[2][r])
  BY <1>3 DEF RevIsRight
<1>5. t = k
  BY <1>2, <1>4, Wanted
<1> QED BY <1>2, <1>4, <1>5 DEF Aimed

\* A step that leaves a file alone, and those who write to it, leaves it good.
LEMMA FillingStays ==
  ASSUME NEW f, NEW k, Filling(f, k), disk'[f] = disk[f], group \subseteq group',
         \A c \in group : Sending(c, f) => Sending(c, f)' /\ off'[c] = off[c]
  PROVE  Filling(f, k)'
BY DEF Filling

\* A group of which nobody has broken off had nobody who had before.
LEMMA GoodBefore ==
  ASSUME FetchInv, ArtifactsStep, NEW f \in Files, NEW k \in Commits, Good(f, k)',
         ~AtRest \/ group' = group
  PROVE  Good(f, k)
<1>1. ArtifactsTypeOK /\ Histories
  BY DEF FetchInv
<1>2. Aimed(RepoOf[f], k)
  <2>1. PICK r \in Repos : r = RepoOf[f]
    BY OrderFacts
  <2> QED BY <2>1, AimedBefore DEF Good
<1>3. group \subseteq group'
  BY FetchShape
<1>4. ASSUME NEW d \in group
      PROVE  apc[d] \in Fetching \cup {"fetched"}
  <2>1. d \in Creates /\ apc[d] # "idle" /\ apc'[d] \in Fetching \cup {"fetched"}
    BY <1>1, <1>3 DEF Good, ArtifactsTypeOK, Histories
  <2>2. CASE ~\E c \in Creates : Begin(c) \/ FetchStep(c) \/ Break(c)
    BY <2>1, <2>2 DEF ArtifactsStep, Push, Publish, runs
  <2>3. ASSUME NEW c \in Creates, Begin(c) \/ FetchStep(c) \/ Break(c), c # d
        PROVE  apc[d] \in Fetching \cup {"fetched"}
    BY <2>1, <2>3, OthersStay
  <2>4. CASE Begin(d) \/ FetchStep(d) \/ Break(d)
    BY <2>1, <2>4
    DEF Fetching, Begin, FetchStep, Url, Compare, Open, Receive, Received, Break
  <2> QED BY <2>2, <2>3, <2>4
<1> QED BY <1>2, <1>4 DEF Good

\* A run goes on to the next file from the one it is at.
LEMMA PastNext ==
  ASSUME FetchInv, NEW c \in Creates, NextFile(c), apc[c] \in Fetching,
         NEW f \in Files, f # File(c), Past(c, f)'
  PROVE  Past(c, f)
<1>1. ArtifactsTypeOK
  BY DEF FetchInv
<1>2. nth[c] \in 1..3 /\ File(c) = Order[nth[c]]
  BY <1>1, FileType
<1>3. PICK i \in 1..3 : f = Order[i]
  BY OrderFacts DEF Files
<1>4. i # nth[c]
  BY <1>2, <1>3
<1>5. CASE nth[c] = 3
  BY <1>2, <1>3, <1>4, <1>5 DEF Past
<1>6. CASE nth[c] < 3 /\ nth'[c] = nth[c] + 1 /\ apc'[c] = "url"
  <2>1. PICK j \in 1..(nth[c] + 1) : f = Order[j] /\ j < nth[c] + 1
    BY <1>6 DEF Past
  <2>2. j # nth[c]
    BY <1>2, <2>1
  <2> QED BY <1>2, <2>1, <2>2 DEF Past
<1> QED BY <1>1, <1>5, <1>6, NextFileType

\* Every step keeps what is in the files good.
LEMMA FetchFilling ==
  ASSUME FetchInv, ArtifactsStep, NEW f \in Files, NEW k \in Commits,
         Good(f, k)', NEW d \in group', Past(d, f)'
  PROVE  Filling(f, k)'
<1>1. ArtifactsTypeOK /\ Histories /\ ArtifactsTypeOK' /\ group \subseteq Creates
  BY FetchType DEF FetchInv, ArtifactsTypeOK
<1>2. ASSUME Good(f, k), NEW e \in group, Past(e, f)
      PROVE  Filling(f, k)
  BY <1>2 DEF FetchInv
<1>3. CASE ~\E c \in Creates : Begin(c) \/ FetchStep(c) \/ Break(c)
  <2>1. UNCHANGED <<runs, disk, group>>
    BY <1>3 DEF ArtifactsStep, Push, Publish
  <2>2. Good(f, k) /\ Past(d, f)
    BY <2>1, GoodBefore DEF Past, runs
  <2> QED BY <1>2, <2>1, <2>2, FillingStays DEF Sending, File, runs
<1>4. ASSUME NEW c \in Creates, Begin(c)
      PROVE  Filling(f, k)'
  <2>1. /\ apc[c] = "idle" /\ apc'[c] = "url" /\ nth'[c] = 1 /\ c \notin group
        /\ UNCHANGED <<nth, rev, off, disk>>
        /\ group' = {c} \cup (IF AtRest THEN {} ELSE group)
    BY <1>1, <1>4 DEF Begin, ArtifactsTypeOK, Histories
  <2>2. ~Past(c, f)'
    BY <2>1 DEF Past
  <2>3. d # c /\ d \in group /\ ~AtRest
    BY <2>1, <2>2
  <2>4. \A e \in group : apc'[e] = apc[e]
    BY <1>1, <1>4, <2>1 DEF Begin, ArtifactsTypeOK
  <2>5. Good(f, k) /\ Past(d, f)
    BY <2>1, <2>3, <2>4, GoodBefore DEF Past
  <2>6. \A e \in group : Sending(e, f) => Sending(e, f)' /\ off'[e] = off[e]
    BY <2>1, <2>4 DEF Sending, File
  <2> QED BY <1>2, <2>1, <2>3, <2>5, <2>6, FillingStays
<1>5. ASSUME NEW c \in Creates, FetchStep(c) \/ Break(c)
      PROVE  Filling(f, k)'
  <2>1. apc[c] \in Fetching /\ group' = group /\ c \in group /\ UNCHANGED <<opt, world, before>>
    BY <1>1, <1>5
    DEF ArtifactsTypeOK, Fetching, FetchStep, Url, Compare, Open, Receive, Received, Break
  <2>2. Good(f, k)
    BY <2>1, GoodBefore
  <2>3. Aimed(RepoOf[f], k)
    BY <2>2 DEF Good
  <2>4. \A e \in group : e # c => /\ apc'[e] = apc[e] /\ nth'[e] = nth[e] 
                                  /\ off'[e] = off[e]
    BY <1>1, <1>5, OthersStay
  <2>5. \A e \in group : e # c => /\ Past(e, f)' = Past(e, f)
                                  /\ Sending(e, f)' = Sending(e, f)
    BY <2>4 DEF Past, Sending, File
  <2>6. ASSUME Past(d, f), disk'[f] = disk[f], Sending(c, f) => Sending(c, f)' /\ off'[c] = off[c]
        PROVE  Filling(f, k)'
    BY <1>2, <2>1, <2>2, <2>4, <2>5, <2>6, FillingStays
  <2>7. ASSUME Past(c, f)' => Past(c, f)
        PROVE  Past(d, f)
    BY <2>1, <2>5, <2>7
  <2>8. CASE Break(c)
    BY <1>1, <2>1, <2>8 DEF Break, Good, Fetching, ArtifactsTypeOK
  <2>9. CASE Url(c) \/ (Compare(c) /\ ~NextFile(c))
    <3>1. /\ apc[c] \in {"url", "compare"} /\ apc'[c] \in {"compare", "open"}
          /\ UNCHANGED <<nth, disk>>
      BY <1>1, <2>9 DEF Url, Compare, ArtifactsTypeOK
    <3> QED BY <2>6, <2>7, <3>1 DEF Past, Sending, Fetching
  <2>10. CASE (Compare(c) \/ Received(c)) /\ NextFile(c) /\ f # File(c)
    <3>1. UNCHANGED disk /\ ~Sending(c, f)
      BY <2>10 DEF Sending, Compare, Received
    <3>2. Past(c, f)' => Past(c, f)
      BY <2>1, <2>10, PastNext
    <3> QED BY <2>6, <2>7, <3>1, <3>2
  <2>11. CASE Compare(c) /\ NextFile(c) /\ f = File(c)
    <3>1. PICK r \in Repos : r = RepoOf[f]
      BY OrderFacts
    <3>2. UpToDate(c) /\ UNCHANGED disk
      BY <1>1, <2>11, NextFileType DEF Compare, ArtifactsTypeOK
    <3>3. Resolved(c, r) = k /\ Answer(r, k) = k
      BY <2>1, <2>3, <3>1, Wanted
    <3>4. disk[f] = Whole(k)
      BY <2>11, <3>1, <3>2, <3>3 DEF UpToDate
    <3>5. Len(Whole(k)) = Size[k] /\ \A i \in 1..Size[k] : Whole(k)[i] = <<k, i>>
      BY WholeType
    <3>6. disk'[f] = Whole(k) /\ Size[k] \in Nat
      BY <3>2, <3>4, SizeFacts
    <3> QED BY <3>5, <3>6 DEF Filling
  <2>12. CASE Open(c)
    <3>1. /\ apc[c] = "open" /\ apc'[c] = "transfer" /\ UNCHANGED <<nth, off>>
          /\ disk' = [disk EXCEPT ![File(c)] = <<>>] /\ off[c] = 0
      BY <1>1, <2>12 DEF Open, Request, ArtifactsTypeOK, Histories
    <3>2. CASE f = File(c)
      <4>1. disk'[f] = <<>> /\ Size[k] \in Nat
        BY <1>1, <3>1, <3>2, SizeFacts DEF ArtifactsTypeOK
      <4>2. Sending(c, f)' /\ c \in group' /\ off'[c] = 0
        BY <2>1, <3>1, <3>2 DEF Sending, File
      <4> QED BY <4>1, <4>2 DEF Filling
    <3>3. CASE f # File(c)
      <4>1. disk'[f] = disk[f] /\ ~Sending(c, f)
        BY <1>1, <3>1, <3>3 DEF ArtifactsTypeOK, Sending
      <4>2. Past(c, f)' => Past(c, f)
        <5>1. \A i \in 1..nth[c] : f = Order[i] => i < nth[c]
          BY <1>1, <3>3, FileType
        <5> QED BY <3>1, <5>1 DEF Past, Fetching
      <4> QED BY <2>6, <2>7, <4>1, <4>2
    <3> QED BY <3>2, <3>3
  <2>13. CASE apc[c] = "transfer" /\ f = File(c)
    <3>1. rev[c] = k
      BY <2>1, <2>3, <2>13, Answered
    <3>2. Len(Whole(k)) = Size[k] /\ Size[k] \in Nat /\ \A i \in 1..Size[k] : Whole(k)[i] = <<k, i>>
      BY WholeType, SizeFacts
    <3>3. Past(c, f)
      BY <1>1, <2>1, <2>13, FileType DEF Past
    <3>4. Filling(f, k)
      BY <1>2, <2>1, <2>2, <3>3
    <3>5. CASE Received(c)
      <4>1. off[c] = Size[k] /\ UNCHANGED disk
        BY <3>1, <3>2, <3>5 DEF Received
      <4>2. \A i \in 1..Size[k], e \in group : Sending(e, f) /\ off[e] < i => e # c
        BY <3>2, <4>1
      <4>3. disk'[f] = disk[f]
        BY <4>1
      <4> QED BY <2>1, <2>4, <2>5, <3>4, <4>2, <4>3 DEF Filling
    <3>6. CASE Receive(c)
      <4> DEFINE n == off[c]
                 s == disk[f]
                 p == <<k, n + 1>>
      <4>1. n < Size[k] /\ apc' = apc /\ nth' = nth
        BY <3>1, <3>2, <3>6 DEF Receive
      <4>2. n \in Nat /\ s \in Seq(Pieces) /\ Len(s) \in Nat /\ p \in Pieces /\ Len(s) <= Size[k]
        BY <1>1, <2>1, <3>4 DEF ArtifactsTypeOK, Pieces, Filling
      <4>3. Whole(k)[n + 1] = p
        BY <3>2, <4>1, <4>2
      <4>4. disk'[f] = Put(s, n, p) /\ off'[c] = n + 1
        BY <1>1, <2>1, <2>13, <3>1, <3>6, <4>3 DEF Receive, ArtifactsTypeOK
      <4> HIDE DEF n, s, p
      <4>5. /\ Len(Put(s, n, p)) = IF n < Len(s) THEN Len(s) ELSE n + 1
            /\ Put(s, n, p)[n + 1] = p
            /\ \A i \in 1..Len(s) : i # n + 1 => Put(s, n, p)[i] = s[i]
        BY <4>2, PutPiece
      <4> DEFINE z == Put(s, n, p)
      <4> HIDE DEF z
      <4>6. Len(z) \in Nat /\ Len(z) <= Size[k] /\ Len(s) <= Len(z) /\ n + 1 <= Len(z)
        BY <3>2, <4>1, <4>2, <4>5 DEF z
      <4>7. ASSUME NEW i \in 1..Size[k]
            PROVE  \/ i <= Len(z) /\ z[i] = <<k, i>>
                   \/ \E e \in group' : Sending(e, f)' /\ off'[e] < i
        <5>1. CASE i = n + 1
          BY <4>5, <4>6, <5>1 DEF z, p
        <5>2. CASE i # n + 1 /\ i <= Len(s) /\ s[i] = <<k, i>>
          BY <4>5, <4>6, <5>2 DEF z
        <5>3. ASSUME i # n + 1, NEW e \in group, Sending(e, f), off[e] < i
              PROVE  Sending(e, f)' /\ off'[e] < i
          <6>1. CASE e = c
            BY <2>13, <3>2, <4>1, <4>2, <4>4, <5>3, <6>1 DEF Sending, File, n
          <6>2. CASE e # c
            BY <2>4, <2>5, <5>3, <6>2
          <6> QED BY <6>1, <6>2
        <5> QED BY <2>1, <3>4, <5>1, <5>2, <5>3 DEF Filling, s
      <4> QED BY <4>4, <4>6, <4>7 DEF Filling, z
    <3> QED BY <1>5, <2>8, <2>13, <3>5, <3>6 DEF FetchStep, Url, Compare, Open
  <2>14. CASE Receive(c) /\ f # File(c)
    <3>1. disk'[f] = disk[f] /\ apc' = apc /\ nth' = nth /\ ~Sending(c, f)
      BY <1>1, <2>14 DEF Receive, Sending, ArtifactsTypeOK
    <3>2. Past(c, f)' => Past(c, f)
      BY <3>1 DEF Past
    <3> QED BY <2>6, <2>7, <3>1, <3>2
  <2> QED
    BY <1>5, <2>8, <2>9, <2>10, <2>11, <2>12, <2>13, <2>14 DEF FetchStep, Receive, Received
<1> QED BY <1>3, <1>4, <1>5 DEF ArtifactsStep

\* Every step keeps it so that a run that is alone opens only what it has to.
LEMMA FetchAlone ==
  ASSUME FetchInv, ArtifactsStep
  PROVE  AloneInv'
<1>1. ArtifactsTypeOK /\ Histories /\ AloneInv
  BY DEF FetchInv
<1> DEFINE Opens(d)  == apc[d] = "open" => \A k \in Commits : Aimed(RepoOf[File(d)], k)
                                                               => disk[File(d)] # Whole(k)
           Writes(d) == apc[d] = "transfer" => Len(disk[File(d)]) = off[d]
<1>2. ASSUME NEW d \in Creates, group' = {d}
      PROVE  Opens(d)' /\ Writes(d)'
  <2>1. (apc'[d] # "open" /\ apc'[d] # "transfer") => Opens(d)' /\ Writes(d)'
    OBVIOUS
  <2>2. ASSUME apc'[d] = apc[d], UNCHANGED <<nth, off, disk>>, group' = group
        PROVE  Opens(d)' /\ Writes(d)'
    <3>1. Opens(d) /\ Writes(d)
      BY <1>1, <1>2, <2>2 DEF AloneInv
    <3>2. PICK r \in Repos : r = RepoOf[File(d)]
      BY <1>1, FileType
    <3>3. ASSUME NEW k \in Commits, Aimed(RepoOf[File(d)], k)'
          PROVE  Aimed(RepoOf[File(d)], k)
      <4>1. Aimed(r, k)'
        BY <2>2, <3>2, <3>3 DEF File
      <4> QED BY <2>2, <3>2, <4>1, AimedBefore
    <3>4. \A k \in Commits : (disk[File(d)] # Whole(k))' = (disk[File(d)] # Whole(k))
      BY <2>2 DEF File, Whole
    <3> QED BY <2>2, <3>1, <3>3, <3>4 DEF File
  <2>3. CASE ~\E c \in Creates : Begin(c) \/ FetchStep(c) \/ Break(c)
    BY <2>2, <2>3 DEF ArtifactsStep, Push, Publish, runs
  <2>4. ASSUME NEW c \in Creates, Begin(c)
        PROVE  apc'[d] = "url"
    BY <1>1, <1>2, <2>4 DEF Begin, ArtifactsTypeOK
  <2>5. ASSUME NEW c \in Creates, FetchStep(c) \/ Break(c)
        PROVE  c = d /\ group' = group
    BY <1>1, <1>2, <2>5
    DEF ArtifactsTypeOK, Fetching, FetchStep, Url, Compare, Open, Receive, Received, Break
  <2>6. CASE Url(d) \/ Break(d)
    BY <1>1, <2>1, <2>6 DEF Url, Break, ArtifactsTypeOK
  <2>7. CASE NextFile(d)
    BY <1>1, <2>1, <2>7, NextFileType
  <2>8. CASE Compare(d) /\ ~NextFile(d)
    <3>1. /\ apc'[d] = "open" /\ ~UpToDate(d)
          /\ UNCHANGED <<opt, nth, world, disk, group, before>>
      BY <1>1, <2>8 DEF Compare, ArtifactsTypeOK
    <3>2. PICK r \in Repos : r = RepoOf[File(d)]
      BY <1>1, FileType
    <3>3. ASSUME NEW k \in Commits, Aimed(RepoOf[File(d)], k)'
          PROVE  disk[File(d)] # Whole(k)
      <4>1. Aimed(r, k)
        BY <3>1, <3>2, <3>3 DEF Aimed, Steady, Aims, File, world
      <4>2. Resolved(d, r) = k /\ Answer(r, k) = k
        BY <1>2, <3>1, <4>1, Wanted
      <4> QED BY <3>1, <3>2, <4>2, SizeFacts DEF UpToDate
    <3>4. \A k \in Commits : (disk[File(d)] # Whole(k))' = (disk[File(d)] # Whole(k))
      BY <3>1 DEF File, Whole
    <3> QED BY <3>1, <3>3, <3>4
  <2>9. CASE Open(d)
    <3>1. /\ apc[d] = "open" /\ apc'[d] = "transfer" /\ nth' = nth /\ off'[d] = 0
          /\ disk' = [disk EXCEPT ![File(d)] = <<>>]
      BY <1>1, <2>9 DEF Open, Request, ArtifactsTypeOK, Histories
    <3>2. disk'[File(d)] = <<>>
      BY <1>1, <3>1, FileType DEF ArtifactsTypeOK
    <3> QED BY <3>1, <3>2 DEF File
  <2>10. CASE Receive(d)
    <3> DEFINE n == off[d]
               f == File(d)
               p == Whole(rev[d])[n + 1]
    <3>1. /\ apc[d] = "transfer" /\ apc'[d] = "transfer" /\ nth' = nth
          /\ off'[d] = n + 1 /\ disk' = [disk EXCEPT ![f] = Put(@, n, p)]
          /\ n < Len(Whole(rev[d])) /\ n \in Nat
      BY <1>1, <2>10 DEF Receive, ArtifactsTypeOK
    <3>2. f \in Files /\ disk[f] \in Seq(Pieces) /\ Len(disk[f]) = n
      BY <1>1, <1>2, <2>5, <2>10, <3>1, FileType DEF AloneInv, ArtifactsTypeOK, FetchStep
    <3>3. rev[d] \in {Page} \cup Commits
      BY <1>1 DEF ArtifactsTypeOK
    <3>4. p \in Pieces
      BY <3>1, <3>3, WholeType
    <3>5. Len(Put(disk[f], n, p)) = n + 1
      <4> HIDE DEF f, n, p
      <4>1. Len(Put(disk[f], n, p)) = IF n < Len(disk[f]) THEN Len(disk[f]) ELSE n + 1
        BY <3>1, <3>2, <3>4, PutPiece
      <4> QED BY <3>1, <3>2, <4>1
    <3>6. disk'[f] = Put(disk[f], n, p)
      BY <1>1, <3>1, <3>2 DEF ArtifactsTypeOK
    <3> QED BY <3>1, <3>5, <3>6 DEF File
  <2> QED
    BY <2>1, <2>3, <2>4, <2>5, <2>6, <2>7, <2>8, <2>9, <2>10 DEF FetchStep, Received
<1> QED BY <1>2 DEF AloneInv

\* What a run may have resolved is a commit there has been since it began.
LEMMA CouldBeSince ==
  ASSUME ArtifactsTypeOK, Histories, NEW c \in Creates, NEW r \in Repos
  PROVE  \A t : Could(c, r, t) => t \in Since(c, r) /\ t \in Commits
<1>1. /\ Commits \subseteq Int /\ heads[r] \in Commits /\ before[1][r] \in Commits
      /\ opt[c][r] \in {Main} \cup Commits
  BY SizeFacts, ArtifactsAssumption DEF ArtifactsTypeOK, Histories
<1>2. ASSUME NEW t, Could(c, r, t) PROVE t \in Since(c, r) /\ t \in Commits
  <2>1. CASE opt[c][r] = Main
    <3>1. t \in Commits /\ before[1][r] <= t /\ t <= heads[r]
      BY <1>2, <2>1 DEF Could
    <3>2. t \in before[1][r]..heads[r]
      BY <1>1, <3>1
    <3> QED BY <2>1, <3>1, <3>2 DEF Since
  <2>2. CASE opt[c][r] # Main
    BY <1>1, <1>2, <2>2 DEF Could, Since
  <2> QED BY <2>1, <2>2
<1> QED BY <1>2

\* A file that nobody writes to stays as it should be.
LEMMA OutcomeStays ==
  ASSUME FetchInv, ArtifactsStep, NEW c \in Creates, NEW f \in Files, Outcome(c, f),
         disk'[f] = disk[f], before' = before
  PROVE  Outcome(c, f)'
<1>1. PICK r \in Repos : r = RepoOf[f]
  BY OrderFacts
<1>2. PICK k \in Since(c, r) :
        disk[f] = Whole(k) \/ (disk[f] = Whole(Page) /\ k \notin before[2][r])
  BY <1>1 DEF Outcome
<1>3. /\ opt' = opt /\ heads[r] <= heads'[r]
      /\ heads[r] \in Int /\ heads'[r] \in Int /\ before[1][r] \in Int
  BY FetchShape, FetchType, SizeFacts DEF FetchInv, ArtifactsTypeOK, Histories
<1>4. k \in Since(c, r)'
  BY <1>2, <1>3 DEF Since
<1>5. Whole(k)' = Whole(k) /\ Whole(Page)' = Whole(Page)
  BY DEF Whole
<1> QED BY <1>1, <1>2, <1>4, <1>5 DEF Outcome

\* A run that is alone and has received what it was sent has the file.
LEMMA ReceivedIsOutcome ==
  ASSUME FetchInv, NEW c \in Creates, group = {c}, Received(c)
  PROVE  Outcome(c, File(c))
<1>1. ArtifactsTypeOK /\ Histories /\ AloneInv /\ LoneInv
  BY DEF FetchInv
<1>2. apc[c] = "transfer" /\ off[c] = Len(Whole(rev[c]))
  BY DEF Received
<1>3. PICK r \in Repos : r = RepoOf[File(c)]
  BY <1>1, FileType
<1>4. PICK t \in Commits : /\ Could(c, r, t)
                           /\ rev[c] = t \/ (rev[c] = Page /\ t \notin before[2][r])
  BY <1>2, <1>3 DEF FetchInv, RevsAreRight, RevIsRight
<1>5. disk[File(c)] = Whole(rev[c])
  <2>1. rev[c] \in {Page} \cup Commits /\ disk[File(c)] \in Seq(Pieces)
    BY <1>1, FileType DEF ArtifactsTypeOK
  <2>2. Whole(rev[c]) \in Seq(Pieces)
    BY <2>1, WholeType
  <2>3. /\ Len(disk[File(c)]) = Len(Whole(rev[c]))
        /\ \A i \in 1..Len(Whole(rev[c])) : disk[File(c)][i] = Whole(rev[c])[i]
    BY <1>1, <1>2 DEF AloneInv, LoneInv
  <2> QED BY <2>1, <2>2, <2>3, SeqEqual
<1>6. t \in Since(c, r)
  BY <1>1, <1>4, CouldBeSince
<1> QED BY <1>3, <1>4, <1>5, <1>6 DEF Outcome

\* A run that is alone and finds a file up to date has it, too.
LEMMA UpToDateIsOutcome ==
  ASSUME FetchInv, NEW c \in Creates, UpToDate(c)
  PROVE  Outcome(c, File(c))
<1>1. ArtifactsTypeOK /\ Histories
  BY DEF FetchInv
<1>2. PICK r \in Repos : r = RepoOf[File(c)]
  BY <1>1, FileType
<1>3. disk[File(c)] = Whole(Resolved(c, r))
  BY <1>2 DEF UpToDate, Answer
<1>4. /\ heads[r] \in Int /\ before[1][r] \in Int /\ before[1][r] <= heads[r]
  BY <1>1, SizeFacts DEF ArtifactsTypeOK, Histories
<1>5. Resolved(c, r) \in Since(c, r)
  BY <1>4 DEF Resolved, Since
<1> QED BY <1>2, <1>3, <1>5 DEF Outcome

\* Every step keeps what a run that is alone has fetched as it should be.
LEMMA FetchLone ==
  ASSUME FetchInv, ArtifactsStep
  PROVE  LoneInv'
<1>1. ArtifactsTypeOK /\ Histories /\ AloneInv /\ LoneInv /\ ArtifactsTypeOK'
  BY FetchType DEF FetchInv
<1> DEFINE Has(d)  == \A i \in 1..3 : Through(d, i) => Outcome(d, Order[i])
           Gets(d) == apc[d] = "transfer" =>
                        \A i \in 1..off[d] : disk[File(d)][i] = Whole(rev[d])[i]
<1>2. ASSUME NEW d \in Creates, group' = {d}
      PROVE  Has(d)' /\ Gets(d)'
  <2>1. group = {d} => Has(d) /\ Gets(d)
    BY <1>1 DEF LoneInv
  <2>2. apc'[d] # "transfer" => Gets(d)'
    OBVIOUS
  <2>3. ASSUME NEW c \in Creates, Begin(c) PROVE Has(d)' /\ Gets(d)'
    <3>1. d = c \/ (d # c /\ group' = {c} \cup (IF AtRest THEN {} ELSE group))
      BY <2>3 DEF Begin
    <3>2. d = c
      BY <1>2, <3>1
    <3>3. apc'[d] = "url" /\ nth'[d] = 1
      BY <1>1, <2>3, <3>2 DEF Begin, ArtifactsTypeOK, Histories
    <3>4. \A i \in 1..3 : ~Through(d, i)'
      BY <3>3 DEF Through
    <3> QED BY <2>2, <3>3, <3>4
  <2>4. CASE ~\E c \in Creates : Begin(c)
    <3>1. group' = group /\ before' = before /\ group = {d}
      BY <1>2, <2>4, FetchShape
    <3>2. ASSUME NEW f \in Files, Outcome(d, f), disk'[f] = disk[f]
          PROVE  Outcome(d, f)'
      BY <3>1, <3>2, OutcomeStays
    <3>3. ASSUME apc'[d] = apc[d], UNCHANGED <<nth, rev, off, disk>>
          PROVE  Has(d)' /\ Gets(d)'
      <4>1. \A i \in 1..3 : Through(d, i)' => Through(d, i)
        BY <3>3 DEF Through
      <4>2. Has(d)'
        BY <2>1, <3>1, <3>2, <3>3, <4>1, OrderFacts
      <4>3. Gets(d)'
        BY <2>1, <3>1, <3>3 DEF File, Whole
      <4> QED BY <4>2, <4>3
    <3>4. CASE ~\E c \in Creates : FetchStep(c) \/ Break(c)
      BY <2>4, <3>3, <3>4 DEF ArtifactsStep, Push, Publish, runs
    <3>5. ASSUME NEW c \in Creates, FetchStep(c) \/ Break(c)
          PROVE  c = d
      BY <1>1, <3>1, <3>5
      DEF ArtifactsTypeOK, Fetching, FetchStep, Url, Compare, Open, Receive, Received, Break
    <3>6. CASE Break(d)
      <4>1. apc'[d] = "broken"
        BY <1>1, <3>6 DEF Break, ArtifactsTypeOK
      <4>2. \A i \in 1..3 : ~Through(d, i)'
        BY <4>1 DEF Through, Fetching
      <4> QED BY <2>2, <4>1, <4>2
    <3>7. CASE Url(d) \/ (Compare(d) /\ ~NextFile(d))
      <4>1. /\ apc[d] \in Fetching /\ apc'[d] \in {"compare", "open"}
            /\ UNCHANGED <<nth, disk>>
        BY <1>1, <3>7 DEF Url, Compare, ArtifactsTypeOK, Fetching
      <4>2. \A i \in 1..3 : Through(d, i)' => Through(d, i)
        BY <4>1 DEF Through
      <4>3. Has(d)'
        BY <2>1, <3>1, <3>2, <4>1, <4>2, OrderFacts
      <4> QED BY <2>2, <4>1, <4>3
    <3>8. CASE Open(d) \/ Receive(d)
      <4>1. /\ apc[d] \in Fetching /\ apc'[d] = "transfer" /\ nth' = nth
            /\ \A f \in Files : f # File(d) => disk'[f] = disk[f]
        BY <1>1, <3>8 DEF Open, Request, Receive, ArtifactsTypeOK, Fetching
      <4>2. nth[d] \in 1..3 /\ File(d) = Order[nth[d]]
        BY <1>1, FileType
      <4>3. ASSUME NEW i \in 1..3, Through(d, i)' PROVE Outcome(d, Order[i])'
        <5>1. i < nth[d] /\ Through(d, i)
          BY <4>1, <4>3 DEF Through
        <5>2. Order[i] \in Files /\ Order[i] # File(d)
          BY <4>2, <5>1, OrderFacts
        <5> QED BY <2>1, <3>1, <3>2, <4>1, <5>1, <5>2
      <4>4. Gets(d)'
        <5>1. CASE Open(d)
          <6>1. off'[d] = 0
            BY <1>1, <5>1 DEF Open, Histories
          <6> QED BY <6>1
        <5>2. CASE Receive(d)
          <6> DEFINE n == off[d]
                     f == File(d)
                     w == Whole(rev[d])
          <6>1. /\ apc[d] = "transfer" /\ nth' = nth /\ rev' = rev
                /\ off'[d] = n + 1 /\ disk' = [disk EXCEPT ![f] = Put(@, n, w[n + 1])]
                /\ n < Len(w) /\ n \in Nat
            BY <1>1, <5>2 DEF Receive, ArtifactsTypeOK
          <6>2. f \in Files /\ disk[f] \in Seq(Pieces) /\ Len(disk[f]) = n
            BY <1>1, <3>1, <6>1, FileType DEF AloneInv, ArtifactsTypeOK
          <6>3. rev[d] \in {Page} \cup Commits
            BY <1>1 DEF ArtifactsTypeOK
          <6>4. w[n + 1] \in Pieces
            BY <6>1, <6>3, WholeType
          <6>5. \A i \in 1..n : disk[f][i] = w[i]
            BY <2>1, <3>1, <6>1
          <6>6. disk'[f] = Put(disk[f], n, w[n + 1])
            BY <1>1, <6>1, <6>2 DEF ArtifactsTypeOK
          <6>7. File(d)' = f /\ Whole(rev[d])' = w
            BY <6>1 DEF File, Whole
          <6> HIDE DEF n, f, w
          <6>8. /\ Put(disk[f], n, w[n + 1])[n + 1] = w[n + 1]
                /\ \A i \in 1..n : i # n + 1 => Put(disk[f], n, w[n + 1])[i] = disk[f][i]
            <7>1. n \in Nat /\ disk[f] \in Seq(Pieces) /\ w[n + 1] \in Pieces
              BY <6>1, <6>2, <6>4
            <7>2. /\ Put(disk[f], n, w[n + 1])[n + 1] = w[n + 1]
                  /\ \A i \in 1..Len(disk[f]) :
                       i # n + 1 => Put(disk[f], n, w[n + 1])[i] = disk[f][i]
              BY <7>1, PutPiece
            <7> QED BY <6>2, <7>2
          <6>9. \A i \in 1..(n + 1) : disk'[f][i] = w[i]
            BY <6>1, <6>5, <6>6, <6>8
          <6> QED BY <6>1, <6>7, <6>9
        <5> QED BY <3>8, <5>1, <5>2
      <4> QED BY <4>3, <4>4
    <3>9. CASE NextFile(d) /\ (Compare(d) \/ Received(d))
      <4>1. apc[d] \in Fetching /\ disk' = disk
        BY <3>9 DEF Compare, Received, Fetching
      <4>2. Outcome(d, File(d))
        <5>1. CASE Received(d)
          BY <3>1, <5>1, ReceivedIsOutcome
        <5>2. CASE Compare(d)
          <6>1. UpToDate(d)
            BY <1>1, <3>9, <5>2, NextFileType DEF Compare, ArtifactsTypeOK
          <6> QED BY <6>1, UpToDateIsOutcome
        <5> QED BY <3>9, <5>1, <5>2
      <4>3. /\ nth[d] \in 1..3 /\ File(d) = Order[nth[d]]
            /\ \/ nth[d] = 3 /\ apc'[d] = "fetched"
               \/ nth[d] < 3 /\ nth'[d] = nth[d] + 1 /\ apc'[d] = "url"
        BY <1>1, <3>9, FileType, NextFileType
      <4>4. ASSUME NEW i \in 1..3, Through(d, i)' PROVE Outcome(d, Order[i])'
        <5>1. i < nth[d] \/ i = nth[d]
          BY <4>3, <4>4 DEF Through
        <5>2. Outcome(d, Order[i])
          BY <2>1, <3>1, <4>1, <4>2, <4>3, <5>1 DEF Through
        <5> QED BY <3>2, <4>1, <5>2, OrderFacts
      <4> QED BY <2>2, <4>3, <4>4
    <3>10. CASE \E c \in Creates : FetchStep(c) \/ Break(c)
      <4>1. FetchStep(d) \/ Break(d)
        BY <3>5, <3>10
      <4> QED BY <3>6, <3>7, <3>8, <3>9, <4>1 DEF FetchStep, Received
    <3> QED BY <3>4, <3>10
  <2> QED BY <2>3, <2>4
<1> QED BY <1>2 DEF LoneInv

-----------------------------------------------------------------------------
(* The invariant, and what follows from it.                                *)

\* The invariant holds before the first run.
LEMMA InitFetch == ArtifactsInit => FetchInv
<1> SUFFICES ASSUME ArtifactsInit PROVE FetchInv
  OBVIOUS
<1>1. ArtifactsTypeOK
  <2>1. Whole(1) \in Seq(Pieces) /\ <<>> \in Seq(Pieces) /\ 1 \in Commits
    BY SizeFacts, WholeType, EmptySeq
  <2>2. nth \in [Creates -> DOMAIN Order]
    BY OrderFacts DEF ArtifactsInit
  <2>3. disk \in [Files -> Seq(Pieces)]
    BY <2>1 DEF ArtifactsInit
  <2> QED BY <2>1, <2>2, <2>3 DEF ArtifactsInit, ArtifactsTypeOK, Fetching
<1>2. Histories
  BY SizeFacts DEF ArtifactsInit, Histories
<1>3. RevsAreRight
  BY DEF ArtifactsInit, RevsAreRight, RevIsRight
<1>4. AloneInv
  BY DEF ArtifactsInit, AloneInv
<1>5. LoneInv
  BY DEF ArtifactsInit, LoneInv
<1> QED BY <1>1, <1>2, <1>3, <1>4, <1>5 DEF ArtifactsInit, FetchInv

\* Every step keeps the invariant.
LEMMA StepFetch == FetchInv /\ (ArtifactsStep \/ UNCHANGED avars) => FetchInv'
<1>1. ASSUME FetchInv, ArtifactsStep PROVE FetchInv'
  BY <1>1, FetchType, FetchHistories, FetchRevs, FetchFilling, FetchAlone, FetchLone
  DEF FetchInv
<1>2. ASSUME FetchInv, UNCHANGED avars PROVE FetchInv'
  <2> USE <1>2 DEF avars, runs, world
  <2>1. ArtifactsTypeOK' /\ Histories'
    BY DEF FetchInv, ArtifactsTypeOK, Histories, Whole
  <2>2. RevsAreRight'
    BY DEF FetchInv, RevsAreRight, RevIsRight, Could, File
  <2>3. \A f \in Files, k \in Commits : (Good(f, k) /\ \E c \in group : Past(c, f))'
                                          => Good(f, k) /\ \E c \in group : Past(c, f)
    BY DEF Good, Aimed, Aims, Steady, Past
  <2>4. \A f \in Files, k \in Commits : Filling(f, k) => Filling(f, k)'
    BY DEF Filling, Sending, File
  <2>5. AloneInv'
    <3>1. \A f \in Files, k \in Commits : Aimed(RepoOf[f], k)' => Aimed(RepoOf[f], k)
      BY DEF Aimed, Aims, Steady
    <3>2. \A c \in Creates : File(c)' = File(c) /\ File(c) \in Files
      BY FileType DEF File, FetchInv
    <3>3. \A k \in Commits : Whole(k)' = Whole(k)
      BY DEF Whole
    <3> QED BY <3>1, <3>2, <3>3 DEF FetchInv, AloneInv
  <2>6. LoneInv'
    <3>1. \A c \in Creates, f \in Files : Outcome(c, f) => Outcome(c, f)'
      BY DEF Outcome, Since, Whole
    <3>2. \A c \in Creates : /\ Whole(rev[c])' = Whole(rev[c]) /\ File(c)' = File(c)
                             /\ \A i \in 1..3 : Through(c, i)' => Through(c, i)
      BY DEF Whole, File, Through
    <3> QED BY <3>1, <3>2, OrderFacts DEF FetchInv, LoneInv
  <2> QED BY <2>1, <2>2, <2>3, <2>4, <2>5, <2>6 DEF FetchInv
<1> QED BY <1>1, <1>2

\* Runs that want the same leave it whole.
LEMMA FetchedIsWhole ==
  ASSUME FetchInv, Done, NEW f \in Files, NEW k \in Commits, Aimed(RepoOf[f], k)
  PROVE  disk[f] = Whole(k)
<1>1. Good(f, k)
  BY DEF Good, Done
<1>2. PICK c \in group : TRUE
  BY DEF Aimed, Aims
<1>3. Past(c, f) /\ \A e \in group : ~Sending(e, f)
  BY DEF Past, Sending, Done
<1>4. Filling(f, k)
  BY <1>1, <1>2, <1>3 DEF FetchInv
<1>5. disk[f] \in Seq(Pieces) /\ Size[k] \in Nat \ {0}
  BY SizeFacts DEF FetchInv, ArtifactsTypeOK
<1>6. /\ Len(disk[f]) <= Size[k]
      /\ \A i \in 1..Size[k] : i <= Len(disk[f]) /\ disk[f][i] = <<k, i>>
  BY <1>3, <1>4 DEF Filling
<1>7. Len(disk[f]) = Size[k]
  <2>1. Size[k] \in 1..Size[k] /\ Len(disk[f]) \in Nat
    BY <1>5
  <2> QED BY <1>5, <1>6, <2>1
<1>8. /\ Whole(k) \in Seq(Pieces) /\ Len(Whole(k)) = Size[k]
      /\ \A i \in 1..Size[k] : Whole(k)[i] = <<k, i>>
  BY WholeType
<1> QED BY <1>5, <1>6, <1>7, <1>8, SeqEqual

\* A run that is alone leaves what it wants alone.
LEMMA WantedStays ==
  ASSUME FetchInv, ArtifactsStep, group' = group, NEW c \in Creates, group = {c},
         NEW f \in Files, NEW k \in Commits, Aimed(RepoOf[f], k), disk[f] = Whole(k)
  PROVE  disk'[f] = disk[f]
<1>1. ArtifactsTypeOK /\ AloneInv
  BY DEF FetchInv
<1>2. ASSUME NEW d \in Creates, Open(d) \/ Receive(d)
      PROVE  d = c
  BY <1>1, <1>2 DEF ArtifactsTypeOK, Fetching, Open, Receive
<1>3. CASE Open(c) /\ File(c) = f
  BY <1>1, <1>3 DEF AloneInv, Open
<1>4. CASE Receive(c) /\ File(c) = f
  <2>1. rev[c] = k
    BY <1>4, Answered DEF Receive
  <2>2. Len(Whole(k)) \in Nat
    BY WholeType
  <2> QED BY <1>1, <1>4, <2>1, <2>2 DEF AloneInv, Receive
<1>5. CASE (Open(c) \/ Receive(c)) /\ File(c) # f
  BY <1>1, <1>5 DEF Open, Receive, ArtifactsTypeOK
<1>6. CASE ~\E d \in Creates : Open(d) \/ Receive(d)
  BY <1>6
  DEF ArtifactsStep, FetchStep, Begin, Url, Compare, Received, Break, Push, Publish
<1> QED BY <1>2, <1>3, <1>4, <1>5, <1>6

-----------------------------------------------------------------------------
(* What a process can be part of.                                          *)

LifecycleStep ==
  \/ \E p \in Procs : \/ Start(p) \/ Exec(p) \/ Spawn(p) \/ ProcStep(p)
                      \/ Unfit(p, "forked") \/ Unfit(p, "main")
  \/ Stop

\* Fetches, and the world, leave the processes alone.
LEMMA StepsOfProcesses ==
  [RuntimeNext]_rvars => LifecycleStep \/ UNCHANGED lvars
<1> SUFFICES ASSUME [RuntimeNext]_rvars PROVE LifecycleStep \/ UNCHANGED lvars
  OBVIOUS
<1>1. CASE UNCHANGED rvars
  BY <1>1 DEF rvars
<1>2. CASE \E c \in Creates : BeginCreate(c) \/ Fetch(c)
  BY <1>2 DEF BeginCreate, Fetch
<1>3. CASE Outside
  BY <1>3 DEF Outside
<1>4. CASE NpuStop
  BY <1>4 DEF NpuStop, LifecycleStep
<1>5. ASSUME NEW p \in Procs,
             NpuStart(p) \/ ExecSoftnpu(p) \/ LoadProgram(p) \/ LoadFails(p) \/ Process(p)
      PROVE  LifecycleStep
  BY <1>5, Zenon
  DEF NpuStart, ExecSoftnpu, LoadProgram, LoadFails, Process, LifecycleStep
<1> QED BY <1>1, <1>2, <1>3, <1>4, <1>5 DEF RuntimeNext

-----------------------------------------------------------------------------
(* The path of the socket.                                                 *)

\* Two that come up at once both know of it; a process that has removed the
\* socket finds one there only in a race; a socket of a killed process is
\* there only until somebody has removed it; and when none is there, somebody
\* is about to bind one, or has crashed before he could.
PathInv ==
  /\ LifecycleTypeOK
  /\ \A p, q \in Procs :
       (p # q /\ ppc[p] \in ComingUp /\ ppc[q] \in ComingUp) => p \in raced
  /\ path # NoProc => \A p \in Procs : ppc[p] = "removed" => p \in raced
  /\ BindFailsOnlyInARace
  /\ (path # NoProc /\ ppc[path] = "killed")
       => \A p \in Procs : ppc[p] \notin {"removed", "serves"}
  /\ (path = NoProc /\ \E p \in Procs : ppc[p] = "serves")
       => \E p \in Procs : ppc[p] \in {"removed", "crashed"}

\* It holds of a zone in which nothing has been started.
LEMMA InitPath == RuntimeInit => PathInv
BY LifecycleAssumption
DEF RuntimeInit, LifecycleInit, PathInv, LifecycleTypeOK, BindFailsOnlyInARace, ComingUp

\* Every step of the processes keeps it.
LEMMA StepPath ==
  ASSUME PathInv, LifecycleStep
  PROVE  PathInv'
<1> USE LifecycleAssumption
    DEF PathInv, LifecycleTypeOK, BindFailsOnlyInARace, ComingUp, Named, Over, Go
<1>1. CASE Stop
  BY <1>1 DEF Stop
<1>2. ASSUME NEW p \in Procs, Start(p)
      PROVE  PathInv'
  BY <1>2 DEF Start
<1>3. ASSUME NEW p \in Procs, Exec(p) \/ Spawn(p)
      PROVE  PathInv'
  BY <1>3 DEF Exec, Spawn
<1>4. ASSUME NEW p \in Procs, Unfit(p, "forked") \/ Unfit(p, "main") \/ SetUpFails(p)
      PROVE  PathInv'
  BY <1>4 DEF Unfit, SetUpFails
<1>5. ASSUME NEW p \in Procs, RemoveSocket(p)
      PROVE  PathInv'
  BY <1>5 DEF RemoveSocket
<1>6. ASSUME NEW p \in Procs, Bind(p)
      PROVE  PathInv'
  BY <1>6 DEF Bind
<1>7. ASSUME NEW p \in Procs, BindFails(p)
      PROVE  PathInv'
  BY <1>7 DEF BindFails
<1>8. ASSUME NEW p \in Procs, Crash(p)
      PROVE  PathInv'
  BY <1>8 DEF Crash, Forwards
<1> QED
  BY <1>1, <1>2, <1>3, <1>4, <1>5, <1>6, <1>7, <1>8 DEF LifecycleStep, ProcStep

\* The invariant of the processes holds in every state.
LEMMA PathInvariance == RuntimeSpec => []PathInv
<1>1. PathInv /\ UNCHANGED lvars => PathInv'
  BY DEF PathInv, LifecycleTypeOK, BindFailsOnlyInARace, lvars
<1>2. PathInv /\ [RuntimeNext]_rvars => PathInv'
  BY <1>1, StepPath, StepsOfProcesses
<1> QED BY <1>2, InitPath, PTL DEF RuntimeSpec

(***************************************************************************)
(* However many processes are started, stopped and crash, the bind of one  *)
(* fails only if another came up at the same time.                         *)
(***************************************************************************)
THEOREM BindsFailInRacesOnly == RuntimeSpec => []BindFailsOnlyInARace
<1>1. PathInv => BindFailsOnlyInARace
  BY DEF PathInv
<1> QED BY <1>1, PathInvariance, PTL

(***************************************************************************)
(* However many softnpu run side by side, requests reach one of them that  *)
(* lives, unless one has crashed.                                          *)
(***************************************************************************)
THEOREM RequestsReachSomebody == RuntimeSpec => []SomebodyAnswers
<1>1. PathInv => SomebodyAnswers
  BY LifecycleAssumption DEF PathInv, LifecycleTypeOK, SomebodyAnswers
<1> QED BY <1>1, PathInvariance, PTL

-----------------------------------------------------------------------------
(* The files.                                                              *)

\* Processes leave the files alone.
LEMMA StepsOfFetches ==
  [RuntimeNext]_rvars => ArtifactsStep \/ UNCHANGED avars
<1> SUFFICES ASSUME [RuntimeNext]_rvars PROVE ArtifactsStep \/ UNCHANGED avars
  OBVIOUS
<1>1. CASE UNCHANGED rvars
  BY <1>1 DEF rvars
<1>2. ASSUME NEW c \in Creates, BeginCreate(c) \/ Fetch(c)
      PROVE  ArtifactsStep
  BY <1>2 DEF BeginCreate, Fetch, ArtifactsStep
<1>3. CASE Outside
  BY <1>3 DEF Outside, ArtifactsStep
<1>4. CASE NpuStop
  BY <1>4 DEF NpuStop
<1>5. ASSUME NEW p \in Procs,
             NpuStart(p) \/ ExecSoftnpu(p) \/ LoadProgram(p) \/ LoadFails(p) \/ Process(p)
      PROVE  UNCHANGED avars
  BY <1>5 DEF NpuStart, ExecSoftnpu, LoadProgram, LoadFails, Process, Load
<1> QED BY <1>1, <1>2, <1>3, <1>4, <1>5 DEF RuntimeNext

\* The invariant of the fetches holds in every state.
LEMMA FetchInvariance == RuntimeSpec => []FetchInv
<1>1. RuntimeInit => FetchInv
  BY InitFetch DEF RuntimeInit
<1>2. FetchInv /\ [RuntimeNext]_rvars => FetchInv'
  BY StepFetch, StepsOfFetches
<1> QED BY <1>1, <1>2, PTL DEF RuntimeSpec

(***************************************************************************)
(* However many runs fetch at once, after whatever earlier runs have left, *)
(* what all of them wanted is there, and whole; and what one that is alone *)
(* has fetched is whole whatever the heads have done.                      *)
(***************************************************************************)
THEOREM FetchesAreRight == RuntimeSpec => []FetchedIsRight
<1>1. FetchInv => FetchedIsRight
  <2> SUFFICES ASSUME FetchInv, Done PROVE FetchedIsRight
    BY DEF FetchedIsRight
  <2>1. ASSUME NEW c \in Creates, group = {c}, NEW f \in Files PROVE Outcome(c, f)
    <3>1. PICK i \in 1..3 : f = Order[i]
      BY OrderFacts DEF Files
    <3>2. Through(c, i)
      BY <2>1 DEF Done, Through
    <3> QED BY <2>1, <3>1, <3>2 DEF FetchInv, LoneInv
  <2>2. \A f \in Files, k \in Commits : Aimed(RepoOf[f], k) => disk[f] = Whole(k)
    BY FetchedIsWhole
  <2> QED BY <2>1, <2>2 DEF FetchedIsRight
<1> QED BY <1>1, FetchInvariance, PTL

(***************************************************************************)
(* A run that is alone leaves the files alone that are what it wants.      *)
(***************************************************************************)
THEOREM WantedFilesStay == RuntimeSpec => WhatIsWantedStays
<1> DEFINE Stays == \A f \in Files, k \in Commits :
              (group' = group /\ (\E c \in Creates : group = {c})
                 /\ Aimed(RepoOf[f], k) /\ disk[f] = Whole(k))
                => disk'[f] = disk[f]
<1>1. FetchInv /\ [RuntimeNext]_rvars => [Stays]_avars
  BY StepsOfFetches, WantedStays
<1>2. WhatIsWantedStays <=> [][Stays]_avars
  BY DEF WhatIsWantedStays
<1> HIDE DEF Stays
<1> QED BY <1>1, <1>2, FetchInvariance, PTL DEF RuntimeSpec

-----------------------------------------------------------------------------
(* What is started from them.                                              *)

\* Processes are the current ones only until the next run begins, and have
\* loaded nothing before they are started.
ImageInv ==
  /\ image \in [Procs -> [Loaded -> Seq(Pieces)]]
  /\ current \subseteq Procs
  /\ current # {} => AtRest
  /\ \A p \in Procs : ppc[p] = "none" => image[p] = [f \in Loaded |-> <<>>]
  /\ RunsWhatWasWanted

\* It holds before the first run.
LEMMA InitImage == RuntimeInit => ImageInv
<1> SUFFICES ASSUME RuntimeInit PROVE ImageInv
  OBVIOUS
<1>1. image \in [Procs -> [Loaded -> Seq(Pieces)]]
  BY EmptySeq DEF RuntimeInit
<1> QED BY <1>1 DEF RuntimeInit, ImageInv, RunsWhatWasWanted

\* Processes that load what is in the files, and fail for it only when it is
\* not whole, load what was wanted, and do not fail.
LEMMA ProcessesRun ==
  ASSUME FetchInv, ImageInv, UNCHANGED avars,
         image' \in [Procs -> [Loaded -> Seq(Pieces)]],
         current' \subseteq Procs, current' # {} => AtRest,
         \A q \in Procs : ppc'[q] = "none" => image'[q] = [f \in Loaded |-> <<>>],
         \A q \in current' : \/ q \in current
                             \/ ppc'[q] # "unfit" /\ image'[q] = [f \in Loaded |-> <<>>],
         \A q \in current : ppc'[q] = "unfit" =>
                              ppc[q] = "unfit" \/ \E f \in Loaded : ~IsWhole(f),
         \A q \in current, f \in Loaded : image'[q][f] \in {image[q][f], disk[f]}
  PROVE  ImageInv'
<1>1. /\ AtRest' = AtRest /\ Done' = Done /\ group' = group
      /\ \A r \in Repos, k \in Commits : Aimed(r, k)' = Aimed(r, k)
  BY DEF avars, runs, world, AtRest, Done, Aimed, Aims, Steady
<1>2. ASSUME Done', group' # {}, NEW q \in current'
      PROVE  /\ (\A r \in Repos : \E k \in Commits : Aimed(r, k)') => ppc'[q] # "unfit"
             /\ \A f \in Loaded, k \in Commits :
                  Aimed(RepoOf[f], k)' => image'[q][f] \in {<<>>, Whole(k)}
  <2>1. \A f \in Loaded, k \in Commits : Aimed(RepoOf[f], k) => disk[f] = Whole(k)
    BY <1>1, <1>2, FetchedIsWhole, OrderFacts DEF FetchedIsRight, Loaded
  <2>2. \A f \in Loaded : RepoOf[f] \in Repos
    BY OrderFacts DEF Loaded
  <2>3. (\A r \in Repos : \E k \in Commits : Aimed(r, k)) => \A f \in Loaded : IsWhole(f)
    BY <2>1, <2>2 DEF IsWhole
  <2>4. ASSUME q \in current
        PROVE  /\ (\A r \in Repos : \E k \in Commits : Aimed(r, k)) => ppc[q] # "unfit"
               /\ \A f \in Loaded, k \in Commits :
                    Aimed(RepoOf[f], k) => image[q][f] \in {<<>>, Whole(k)}
    BY <1>1, <1>2, <2>4 DEF ImageInv, RunsWhatWasWanted
  <2>5. (\A r \in Repos : \E k \in Commits : Aimed(r, k)') => ppc'[q] # "unfit"
    BY <1>1, <2>3, <2>4
  <2>6. ASSUME NEW f \in Loaded, NEW k \in Commits, Aimed(RepoOf[f], k)'
        PROVE  image'[q][f] \in {<<>>, Whole(k)}
    <3>1. Aimed(RepoOf[f], k)
      <4>1. PICK r \in Repos : r = RepoOf[f]
        BY <2>2
      <4> QED BY <1>1, <2>6, <4>1
    <3>2. disk[f] = Whole(k)
      BY <2>1, <3>1
    <3>3. q \in current => image[q][f] \in {<<>>, Whole(k)}
      BY <2>4, <3>1
    <3> QED BY <3>2, <3>3
  <2> QED BY <2>5, <2>6
<1>3. RunsWhatWasWanted'
  BY <1>2 DEF RunsWhatWasWanted
<1> QED BY <1>1, <1>3 DEF ImageInv

\* Every step keeps what processes have loaded right.
LEMMA StepImage ==
  ASSUME FetchInv, PathInv, ImageInv, [RuntimeNext]_rvars
  PROVE  ImageInv'
<1>1. /\ image \in [Procs -> [Loaded -> Seq(Pieces)]] /\ current \subseteq Procs
      /\ current # {} => AtRest
      /\ \A p \in Procs : ppc[p] = "none" => image[p] = [f \in Loaded |-> <<>>]
  BY DEF ImageInv
<1>2. /\ ppc \in [Procs -> ComingUp \cup Named \cup Over \cup {"none"}]
      /\ disk \in [Files -> Seq(Pieces)] /\ Loaded \subseteq Files
  BY OrderFacts DEF PathInv, LifecycleTypeOK, FetchInv, ArtifactsTypeOK, Loaded
<1>3. CASE UNCHANGED rvars
  BY <1>1, <1>3, ProcessesRun DEF rvars, lvars
<1>4. ASSUME NEW c \in Creates, BeginCreate(c)
      PROVE  ImageInv'
  BY <1>1, <1>4 DEF BeginCreate, lvars, ImageInv, RunsWhatWasWanted
<1>5. ASSUME NEW c \in Creates, Fetch(c)
      PROVE  ImageInv'
  <2>1. ~AtRest
    BY <1>5
    DEF Fetch, AtRest, Fetching, FetchStep, Url, Compare, Open, Receive, Received, Break
  <2> QED BY <1>1, <1>5, <2>1 DEF Fetch, lvars, ImageInv, RunsWhatWasWanted
<1>6. CASE Outside
  <2>1. ArtifactsStep /\ UNCHANGED <<runs, group, image, current, ppc>>
    BY <1>6 DEF Outside, ArtifactsStep, Push, Publish, lvars
  <2>2. AtRest' = AtRest /\ Done' = Done
    BY <2>1 DEF AtRest, Done, runs
  <2>3. \A r \in Repos, k \in Commits : Aimed(r, k)' => Aimed(r, k)
    BY <2>1, AimedBefore
  <2>4. \A f \in Loaded, k \in Commits : Aimed(RepoOf[f], k)' => Aimed(RepoOf[f], k)
    <3>1. \A f \in Loaded : RepoOf[f] \in Repos
      BY <1>2, OrderFacts
    <3> QED BY <2>3, <3>1
  <2>5. RunsWhatWasWanted'
    BY <2>1, <2>2, <2>3, <2>4 DEF ImageInv, RunsWhatWasWanted
  <2> QED BY <1>1, <2>1, <2>2, <2>5 DEF ImageInv
<1>7. ASSUME NEW p \in Procs, NpuStart(p)
      PROVE  ImageInv'
  <2>1. /\ ppc[p] = "none" /\ ppc' = [ppc EXCEPT ![p] = "forked"]
        /\ UNCHANGED <<avars, image>>
        /\ current' = IF AtRest THEN current \cup {p} ELSE current
    BY <1>7 DEF NpuStart, Start, Go
  <2> QED BY <1>1, <1>2, <2>1, ProcessesRun
<1>8. ASSUME NEW p \in Procs, NEW f \in Loaded, Load(p, f), NEW to,
             ppc[p] # "none", to # "unfit", to # "none", Go(p, to)
      PROVE  ImageInv'
  <2>1. /\ image' = [image EXCEPT ![p][f] = disk[f]] /\ UNCHANGED <<avars, current>>
        /\ ppc' = [ppc EXCEPT ![p] = to]
    BY <1>8 DEF Load, Go
  <2>2. image' \in [Procs -> [Loaded -> Seq(Pieces)]]
    BY <1>1, <1>2, <2>1
  <2>3. \A q \in Procs, g \in Loaded : image'[q][g] \in {image[q][g], disk[g]}
    BY <1>1, <2>1
  <2>4. \A q \in Procs : q # p => image'[q] = image[q]
    BY <1>1, <2>1
  <2>5. \A q \in Procs : ppc'[q] = "none" => image'[q] = [g \in Loaded |-> <<>>]
    BY <1>1, <1>2, <1>8, <2>1, <2>4
  <2>6. \A q \in Procs : ppc'[q] = "unfit" => ppc[q] = "unfit"
    BY <1>2, <1>8, <2>1
  <2> QED BY <1>1, <2>1, <2>2, <2>3, <2>5, <2>6, ProcessesRun
<1>9. ASSUME NEW p \in Procs, ExecSoftnpu(p)
      PROVE  ImageInv'
  BY <1>8, <1>9 DEF ExecSoftnpu, Exec, Loaded
<1>10. ASSUME NEW p \in Procs, LoadProgram(p)
       PROVE  ImageInv'
  BY <1>8, <1>10 DEF LoadProgram, Spawn, Loaded
<1>11. ASSUME NEW p \in Procs, LoadFails(p)
       PROVE  ImageInv'
  <2>1. /\ ppc[p] # "none" /\ ppc' = [ppc EXCEPT ![p] = "unfit"]
        /\ \E f \in Loaded : ~IsWhole(f)
        /\ UNCHANGED <<avars, image, current>>
    BY <1>11 DEF LoadFails, Unfit, Go, Loaded
  <2> QED BY <1>1, <1>2, <2>1, ProcessesRun
<1>12. CASE NpuStop \/ \E p \in Procs : Process(p)
  <2>1. /\ UNCHANGED <<avars, image, current>>
        /\ \A q \in Procs : ppc'[q] \in {"none", "unfit"} => ppc'[q] = ppc[q]
    <3>1. CASE NpuStop
      BY <1>2, <3>1 DEF NpuStop, Stop
    <3>2. ASSUME NEW p \in Procs, Process(p)
          PROVE  <2>1
      BY <1>2, <3>2
      DEF Process, ProcStep, SetUpFails, RemoveSocket, Bind, BindFails, Crash, Go
    <3> QED BY <1>12, <3>1, <3>2
  <2> QED BY <1>1, <2>1, ProcessesRun
<1> QED
  BY <1>3, <1>4, <1>5, <1>6, <1>7, <1>9, <1>10, <1>11, <1>12 DEF RuntimeNext

\* What is right of processes holds in every state.
LEMMA ImageInvariance == RuntimeSpec => []ImageInv
<1>1. FetchInv /\ PathInv /\ ImageInv /\ [RuntimeNext]_rvars => ImageInv'
  BY StepImage
<1> QED BY <1>1, InitImage, FetchInvariance, PathInvariance, PTL DEF RuntimeSpec

(***************************************************************************)
(* The variables of the fetches, the processes and what they have loaded   *)
(* have their types.                                                       *)
(***************************************************************************)
THEOREM RuntimesAreTyped == RuntimeSpec => []RuntimeTypeOK
<1>1. FetchInv /\ PathInv /\ ImageInv => RuntimeTypeOK
  BY DEF FetchInv, PathInv, ImageInv, RuntimeTypeOK
<1> QED BY <1>1, FetchInvariance, PathInvariance, ImageInvariance, PTL

(***************************************************************************)
(* However many processes are started, by however many at a time: after    *)
(* runs that wanted the same and fetched it, they run that.                *)
(***************************************************************************)
THEOREM WhatWasWantedRuns == RuntimeSpec => []RunsWhatWasWanted
<1>1. ImageInv => RunsWhatWasWanted
  BY DEF ImageInv
<1> QED BY <1>1, ImageInvariance, PTL

=============================================================================
