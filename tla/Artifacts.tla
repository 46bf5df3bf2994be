----------------------------- MODULE Artifacts -----------------------------
(***************************************************************************)
(* fetch_required_artifacts of npuzone: what every create does first.      *)
(* Each run fetches three files into the runtime directory of its name,    *)
(* one after the other.  Runs on one name use one directory, at any time,  *)
(* and nothing is locked.                                                  *)
(*                                                                         *)
(* External: the repositories, whose heads move; the builds of their       *)
(* commits, which appear later or never; and the file system, in which     *)
(* every open file has its own offset.  A commit of a repository is a      *)
(* number.                                                                 *)
(***************************************************************************)
EXTENDS Integers, Sequences

CONSTANTS
  Creates,  \* runs
  Options,  \* what the command line may say of each repository
  Size      \* Size[k]: the pieces the files of commit k arrive in

Repos   == {"softnpu", "sidecar-lite"}
Commits == DOMAIN Size
Main    == 0  \* no commit on the command line: the head of main

ASSUME ArtifactsAssumption ==
  /\ Size \in Seq(Nat \ {0}) /\ Size # <<>>
  /\ Options \subseteq [Repos -> {Main} \cup Commits]

VARIABLES
  apc,    \* where each run is
  opt,    \* what its command line says; never changes
  nth,    \* the file it is at
  rev,    \* the commit in the artifact's URL; the one of the answer
  off,    \* how many pieces it has written
  heads,  \* the head of each repository
  built,  \* the commits of each that are built
  disk,   \* the pieces in each file; a file that is missing has none
  group,  \* history: the runs since the directory was last at rest
  before  \* history: the heads and builds at that time

runs  == <<apc, opt, nth, rev, off>>
world == <<heads, built>>
avars == <<runs, world, disk, group, before>>

Fetching == {"url", "compare", "open", "transfer"}
Order    == <<"softnpu", "asic_program.so", "scadm">>
Files    == {Order[i] : i \in DOMAIN Order}
RepoOf   == [f \in Files |-> IF f = "softnpu" THEN "softnpu" ELSE "sidecar-lite"]
File(c)  == Order[nth[c]]
AtRest   == \A c \in Creates : apc[c] \notin Fetching

Page     == 0         \* instead of a commit: an answer with no file
Hole     == <<0, 0>>
Whole(k) == [i \in 1..(IF k = Page THEN 1 ELSE Size[k]) |-> <<k, i>>]

\* Nothing has been fetched, or an earlier create has fetched the first commits.
ArtifactsInit ==
  /\ apc = [c \in Creates |-> "idle"]
  /\ opt \in [Creates -> Options]
  /\ nth = [c \in Creates |-> 1]
  /\ rev = [c \in Creates |-> Page]
  /\ off = [c \in Creates |-> 0]
  /\ heads = [r \in Repos |-> 1]
  /\ built = [r \in Repos |-> {1}]
  /\ disk \in {[f \in Files |-> <<>>], [f \in Files |-> Whole(1)]}
  /\ group = {}
  /\ before = <<heads, built>>

-----------------------------------------------------------------------------
(* A run.                                                                  *)

Begin(c) ==
  /\ apc[c] = "idle"
  /\ apc' = [apc EXCEPT ![c] = "url"]
  /\ group' = {c} \cup (IF AtRest THEN {} ELSE group)
  /\ before' = IF AtRest THEN world ELSE before
  /\ UNCHANGED <<opt, nth, rev, off, world, disk>>

\* A commit given on the command line, or the head at this moment.
Resolved(c, r) == IF opt[c][r] = Main THEN heads[r] ELSE opt[c][r]

Url(c) ==
  /\ apc[c] = "url"
  /\ rev' = [rev EXCEPT ![c] = Resolved(c, RepoOf[File(c)])]
  /\ apc' = [apc EXCEPT ![c] = "compare"]
  /\ UNCHANGED <<opt, nth, off, world, disk, group, before>>

\* Slip: one too far.
NextFilePastEnd(c) ==
  /\ nth' = [nth EXCEPT ![c] = @ + 1]
  /\ apc' = [apc EXCEPT ![c] = IF nth[c] > Len(Order) THEN "fetched" ELSE "url"]
  /\ rev' = [rev EXCEPT ![c] = Page]
  /\ off' = [off EXCEPT ![c] = 0]

\* On to the next file, if there is one.
NextFile(c) ==
  /\ nth' = [nth EXCEPT ![c] = IF @ = Len(Order) THEN 1 ELSE @ + 1]
  /\ apc' = [apc EXCEPT ![c] = IF nth[c] = Len(Order) THEN "fetched" ELSE "url"]
  /\ rev' = [rev EXCEPT ![c] = Page]
  /\ off' = [off EXCEPT ![c] = 0]

Answer(r, k) == IF k \in built[r] THEN k ELSE Page

\* Slip: it is there.
UpToDateIfThere(c) == disk[File(c)] # <<>>

\* Slip: the digest keeps its newline.
UpToDateNever(c) == FALSE

\* The digest is of the head as it is now; without a build there is none, but
\* a page, which no digest is equal to.
UpToDate(c) ==
  LET r == RepoOf[File(c)]
      k == Answer(r, Resolved(c, r))
  IN k # Page /\ disk[File(c)] = Whole(k)

Compare(c) ==
  /\ apc[c] = "compare"
  /\ IF UpToDate(c)
     THEN NextFile(c)
     ELSE /\ apc' = [apc EXCEPT ![c] = "open"]
          /\ UNCHANGED <<nth, rev, off>>
  /\ UNCHANGED <<opt, world, disk, group, before>>

\* The request, sent when the file is open.
Request(c) ==
  /\ rev' = [rev EXCEPT ![c] = Answer(RepoOf[File(c)], @)]
  /\ apc' = [apc EXCEPT ![c] = "transfer"]

\* Slip: the file is not truncated.
OpenOver(c) ==
  /\ apc[c] = "open"
  /\ Request(c)
  /\ UNCHANGED <<opt, nth, off, world, disk, group, before>>

Open(c) ==
  /\ apc[c] = "open"
  /\ disk' = [disk EXCEPT ![File(c)] = <<>>]
  /\ Request(c)
  /\ UNCHANGED <<opt, nth, off, world, group, before>>

\* File s once piece p has been written at offset n.
Put(s, n, p) ==
  [i \in 1..(IF n < Len(s) THEN Len(s) ELSE n + 1) |->
     IF i = n + 1 THEN p ELSE IF i \in DOMAIN s THEN s[i] ELSE Hole]

\* An error page is data like any other.
Receive(c) ==
  /\ apc[c] = "transfer"
  /\ off[c] < Len(Whole(rev[c]))
  /\ disk' = [disk EXCEPT ![File(c)] = Put(@, off[c], Whole(rev[c])[off[c] + 1])]
  /\ off' = [off EXCEPT ![c] = @ + 1]
  /\ UNCHANGED <<apc, opt, nth, rev, world, group, before>>

Received(c) ==
  /\ apc[c] = "transfer"
  /\ off[c] = Len(Whole(rev[c]))
  /\ NextFile(c)
  /\ UNCHANGED <<opt, world, disk, group, before>>

\* A request fails, a transfer breaks off, an open or a write panics, or the
\* run is killed: what is in the file stays there.
Break(c) ==
  /\ apc[c] \in Fetching
  /\ apc' = [apc EXCEPT ![c] = "broken"]
  /\ nth' = [nth EXCEPT ![c] = 1]
  /\ rev' = [rev EXCEPT ![c] = Page]
  /\ off' = [off EXCEPT ![c] = 0]
  /\ UNCHANGED <<opt, world, disk, group, before>>

FetchStep(c) == Url(c) \/ Compare(c) \/ Open(c) \/ Receive(c) \/ Received(c)

-----------------------------------------------------------------------------
(* The world.                                                              *)

\* Commits are pushed in their order.
Push(r) ==
  /\ heads[r] + 1 \in Commits
  /\ heads' = [heads EXCEPT ![r] = @ + 1]
  /\ UNCHANGED <<runs, built, disk, group, before>>

Publish(r) ==
  /\ heads[r] \notin built[r]
  /\ built' = [built EXCEPT ![r] = @ \cup {heads[r]}]
  /\ UNCHANGED <<runs, heads, disk, group, before>>

-----------------------------------------------------------------------------
Pieces == ({Page} \cup Commits) \X Nat

ArtifactsTypeOK ==
  /\ apc \in [Creates -> Fetching \cup {"idle", "fetched", "broken"}]
  /\ opt \in [Creates -> Options]
  /\ nth \in [Creates -> DOMAIN Order]
  /\ rev \in [Creates -> {Page} \cup Commits]
  /\ off \in [Creates -> Nat]
  /\ heads \in [Repos -> Commits]
  /\ built \in [Repos -> SUBSET Commits]
  /\ disk \in [Files -> Seq(Pieces)]
  /\ group \subseteq Creates
  /\ \A c \in Creates : apc[c] \in Fetching => c \in group

\* What the runs of the group are to fetch from r, if that is one and the same
\* all the time: commits on the command line, or a head that has not moved.
Aims(r)    == {IF opt[c][r] = Main THEN before[1][r] ELSE opt[c][r] : c \in group}
Steady(r)  == (\E c \in group : opt[c][r] = Main) => heads[r] = before[1][r]
Aimed(r, k) == Steady(r) /\ Aims(r) = {k} /\ k \in before[2][r]

Done == AtRest /\ \A c \in group : apc[c] = "fetched"

\* What the URL of a run can have been for, since it began.
Since(c, r) == IF opt[c][r] = Main THEN before[1][r]..heads[r] ELSE {opt[c][r]}

\* A whole file of such a commit, or the page there was before it was built.
Outcome(c, f) ==
  LET r == RepoOf[f] IN
    \E k \in Since(c, r) :
      disk[f] = Whole(k) \/ (disk[f] = Whole(Page) /\ k \notin before[2][r])

(***************************************************************************)
(* When runs that want the same have fetched it, one or several at once,   *)
(* the files are whole and of the commit they were to be of, whatever      *)
(* earlier runs have left: the pieces of a transfer that broke off, a page *)
(* that was taken for a file, a longer file.  It takes a commit that was   *)
(* built before and, for a head, one that did not move.  A run that is     *)
(* alone has fetched each file whole even if heads move, each of a head    *)
(* there has been since it began, and a page only where one was not built. *)
(***************************************************************************)
FetchedIsRight ==
  Done => /\ \A f \in Files, k \in Commits :
               Aimed(RepoOf[f], k) => disk[f] = Whole(k)
          /\ \A c \in Creates : group = {c} => \A f \in Files : Outcome(c, f)

(***************************************************************************)
(* A run that is alone and wants what is there does not touch it: the      *)
(* digest keeps it from truncating the executable and the library that a   *)
(* softnpu runs from.                                                      *)
(***************************************************************************)
WhatIsWantedStays ==
  [][\A f \in Files, k \in Commits :
       (group' = group /\ (\E c \in Creates : group = {c})
          /\ Aimed(RepoOf[f], k) /\ disk[f] = Whole(k))
         => disk'[f] = disk[f]]_avars

=============================================================================
