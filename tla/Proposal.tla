------------------------------ MODULE Proposal ------------------------------
(***************************************************************************)
(* A repair is proposed where the team reviews (propose/src/lib.rs): git   *)
(* push, gh pr list, gh pr create, each an external command that may fail, *)
(* or outlive the engine's patience and take effect afterwards.  Two       *)
(* repairs may want one branch name: the first one's local branch was      *)
(* deleted meanwhile, while what it published stayed.                      *)
(***************************************************************************)
EXTENDS Naturals

CONSTANTS
    Proposer,   \* repairs to propose, each with a commit of its own
    Remote,     \* branch names
    Page        \* bound: pull requests there may ever be

VARIABLES
    asked,      \* [Proposer -> the branch it wants, its stage, and the page it names]
    published,  \* [Remote -> whose commit the branch holds at origin]
    pages,      \* [Page -> a pull request: unused, or its branch and whether it is open]
    outliving   \* commands nobody waits for any more, still running

proposalVars == <<asked, published, pages, outliving>>

Nobody == "nobody"
NoPage == "no page"

ASSUME ProposalAssumption == Nobody \notin Proposer

Unused == [branch |-> Nobody, open |-> FALSE]

ProposalInit ==
    /\ asked \in [Proposer -> [at: {"idle"}, branch: Remote, page: {NoPage}]]
    /\ published = [b \in Remote |-> Nobody]
    /\ pages = [u \in Page |-> Unused]
    /\ outliving = {}

-----------------------------------------------------------------------------
BranchWanted(p) == asked[p].branch
OpenOn(b) == {u \in Page : pages[u].branch = b /\ pages[u].open}

\* GitHub: a branch is only moved forward, and has one open pull request.
TakesPush(p) == published[BranchWanted(p)] \in {Nobody, p}
Publishes(p) == published' = [published EXCEPT ![BranchWanted(p)] = p]
TakesCreate(p) == published[BranchWanted(p)] # Nobody /\ OpenOn(BranchWanted(p)) = {}
Opens(p, u) ==
    /\ pages[u] = Unused
    /\ pages' = [pages EXCEPT ![u] = [branch |-> BranchWanted(p), open |-> TRUE]]

Reach(p, from, to) ==
    /\ asked[p].at = from
    /\ asked' = [asked EXCEPT ![p].at = to]
Names(p, from, u) ==
    /\ asked[p].at = from
    /\ asked' = [asked EXCEPT ![p].at = "proposed", ![p].page = u]

Propose(p) == Reach(p, "idle", "asked") /\ UNCHANGED <<published, pages, outliving>>

\* Mutant: a push that is refused is taken for one already made.
PushForgiven(p) ==
    /\ Reach(p, "asked", "pushed")
    /\ IF TakesPush(p) THEN Publishes(p) ELSE UNCHANGED published
    /\ UNCHANGED <<pages, outliving>>

\* "Everything up-to-date" is no failure; any other refusal ends the attempt.
Push(p) ==
    /\ \/ TakesPush(p) /\ Publishes(p) /\ Reach(p, "asked", "pushed")
       \/ Reach(p, "asked", "failed") /\ UNCHANGED published
    /\ UNCHANGED <<pages, outliving>>

\* An open pull request of the branch is adopted.  With none, or a list that
\* fails, create is left to speak.
LookFor(p) ==
    /\ \/ \E u \in OpenOn(BranchWanted(p)) : Names(p, "pushed", u)
       \/ Reach(p, "pushed", "looked")
       \/ Reach(p, "pushed", "failed")
    /\ UNCHANGED <<published, pages, outliving>>

\* The page is read back from the command's output; without one there the
\* attempt fails, though the pull request is open.
Create(p) ==
    /\ \/ \E u \in Page : TakesCreate(p) /\ Opens(p, u) /\ Names(p, "looked", u)
       \/ \E u \in Page : TakesCreate(p) /\ Opens(p, u) /\ Reach(p, "looked", "failed")
       \/ Reach(p, "looked", "failed") /\ UNCHANGED pages
    /\ UNCHANGED <<published, outliving>>

\* COMMAND_TIMEOUT: the attempt fails, and nobody kills the command.
TimesOut(p) ==
    /\ Reach(p, "asked", "failed") \/ Reach(p, "looked", "failed")
    /\ outliving' = outliving \cup {<<IF asked[p].at = "asked" THEN "push" ELSE "create", p>>}
    /\ UNCHANGED <<published, pages>>

\* It ends after all: it takes effect, or not.
EndsLate(p) ==
    /\ \/ /\ <<"push", p>> \in outliving /\ outliving' = outliving \ {<<"push", p>>}
          /\ (TakesPush(p) /\ Publishes(p)) \/ UNCHANGED published
          /\ UNCHANGED pages
       \/ /\ <<"create", p>> \in outliving /\ outliving' = outliving \ {<<"create", p>>}
          /\ (TakesCreate(p) /\ \E u \in Page : Opens(p, u)) \/ UNCHANGED pages
          /\ UNCHANGED published
    /\ UNCHANGED asked

-----------------------------------------------------------------------------
\* A person opens, merges or closes a pull request; and deletes a branch nobody
\* is proposing at that moment, closing what was open on it.
PersonOpens(b) ==
    /\ published[b] # Nobody /\ OpenOn(b) = {}
    /\ \E u \in Page : pages[u] = Unused /\ pages' = [pages EXCEPT ![u] = [branch |-> b, open |-> TRUE]]
    /\ UNCHANGED <<asked, published, outliving>>
PersonCloses(u) ==
    /\ pages[u].open
    /\ pages' = [pages EXCEPT ![u].open = FALSE]
    /\ UNCHANGED <<asked, published, outliving>>
PersonDeletes(b) ==
    /\ published[b] # Nobody
    /\ \A p \in Proposer : BranchWanted(p) = b => asked[p].at \in {"idle", "proposed", "failed"}
    /\ published' = [published EXCEPT ![b] = Nobody]
    /\ pages' = [u \in Page |-> IF u \in OpenOn(b) THEN [pages[u] EXCEPT !.open = FALSE] ELSE pages[u]]
    /\ UNCHANGED <<asked, outliving>>

ProposalStep(p) == Push(p) \/ LookFor(p) \/ Create(p) \/ TimesOut(p)

ProposalNext ==
    \/ \E p \in Proposer : Propose(p) \/ ProposalStep(p) \/ EndsLate(p)
    \/ \E b \in Remote : PersonOpens(b) \/ PersonDeletes(b)
    \/ \E u \in Page : PersonCloses(u)

ProposalSpec == ProposalInit /\ [][ProposalNext]_proposalVars

-----------------------------------------------------------------------------
\* "The evidence travels with it ... here is proof this fixes it": the pull
\* request the engine tells of is open at that moment and shows the very commit
\* whose claims were earned, whatever another repair, a person or a command
\* given up on did to the branch before.
ProposedShowsItsCommit ==
    [][\A p \in Proposer :
         (asked[p].at # "proposed" /\ asked'[p].at = "proposed") =>
             /\ asked'[p].page \in OpenOn(BranchWanted(p))'
             /\ published'[BranchWanted(p)] = p]_proposalVars
=============================================================================
