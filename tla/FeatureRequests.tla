---------------------------- MODULE FeatureRequests ----------------------------
(***************************************************************************)
(* Ideas for the product, the votes for them and what the platform makes   *)
(* of them (lib/feature-requests.ts, lib/feature-request-policy.ts).       *)
(*                                                                         *)
(* A change of status is a transaction that locks its idea and reads the   *)
(* original of a duplicate without locking it; the foreign key asks for    *)
(* the original's row when it writes.  A vote is statements of their own.  *)
(***************************************************************************)
EXTENDS Naturals, FiniteSets

CONSTANTS
  Ideas,    \* ideas that may be sent
  Voters,   \* people who are signed in
  NoIdea    \* the original of an idea that duplicates none

ASSUME IdeasAssumption == NoIdea \notin Ideas /\ IsFiniteSet(Voters)

VARIABLES
  ideas,     \* feature_requests
  votes,     \* feature_request_votes
  changing,  \* changes of status that have locked and read
  voting     \* votes on their way

ideaVars == <<ideas, votes, changing, voting>>

IdeasInit ==
  /\ ideas = [i \in Ideas |-> [status |-> "none", dup |-> NoIdea, count |-> 0]]
  /\ votes = {} /\ changing = {} /\ voting = {}

TRANSITIONS ==
  [none |-> {},
   new |-> {"under_review", "planned", "in_progress", "shipped", "declined", "duplicate"},
   under_review |-> {"planned", "in_progress", "shipped", "declined", "duplicate"},
   planned |-> {"under_review", "in_progress", "shipped", "declined", "duplicate"},
   in_progress |-> {"planned", "shipped", "declined"},
   shipped |-> {"in_progress"},
   declined |-> {"under_review", "planned"},
   duplicate |-> {"under_review"}]
VOTABLE == {"under_review", "planned", "in_progress"}

VotesFor(i) == {p \in Voters : <<i, p>> \in votes}
LockedBug(i) == FALSE
Locked(i) == \E t \in changing : t.of = i

-----------------------------------------------------------------------------
(* Sending an idea and voting *)

createFeatureRequest(i) ==
  /\ ideas[i].status = "none" /\ ideas' = [ideas EXCEPT ![i].status = "new"]
  /\ UNCHANGED <<votes, changing, voting>>

\* The status is read, then the vote is written (the foreign key waits for a
\* change of status), then the votes are counted, then the count is written.
setFeatureRequestVote(i, p, vote) ==
  /\ ideas[i].status \in VOTABLE \/ (~vote /\ ideas[i].status = "shipped")
  /\ \A x \in voting : x.by # p
  /\ voting' = voting \cup {[step |-> "cast", of |-> i, by |-> p, vote |-> vote, n |-> 0]}
  /\ UNCHANGED <<ideas, votes, changing>>

CastVote(x) ==
  /\ x \in voting /\ x.step = "cast" /\ (x.vote => ~Locked(x.of))
  /\ votes' = IF x.vote THEN votes \cup {<<x.of, x.by>>} ELSE votes \ {<<x.of, x.by>>}
  /\ voting' = (voting \ {x}) \cup {[x EXCEPT !.step = "count"]}
  /\ UNCHANGED <<ideas, changing>>

CountVotes(x) ==
  /\ x \in voting /\ x.step = "count"
  /\ voting' = (voting \ {x}) \cup {[x EXCEPT !.step = "write", !.n = Cardinality(VotesFor(x.of))]}
  /\ UNCHANGED <<ideas, votes, changing>>

WriteCount(x) ==
  /\ x \in voting /\ x.step = "write" /\ ~Locked(x.of)
  /\ ideas' = [ideas EXCEPT ![x.of].count = x.n] /\ voting' = voting \ {x}
  /\ UNCHANGED <<votes, changing>>

-----------------------------------------------------------------------------
(* A change of status *)

Root(j) == IF j \in Ideas /\ ideas[j].status = "duplicate" /\ ideas[j].dup # NoIdea THEN ideas[j].dup ELSE j

statusChanged(t) == ideas[t.of].status # t.next \/ (t.next = "duplicate" /\ ideas[t.of].dup # t.dup)

statusTransitionError(t) ==
  \/ t.next = "duplicate" /\ t.dup \in {NoIdea, t.of}
  \/ ideas[t.of].status # t.next /\ t.next \notin TRANSITIONS[ideas[t.of].status]
  \/ ideas[t.of].status = t.next /\ t.next # "duplicate"

\* The idea is locked; "point at the root idea", as it is now.  Nothing else
\* changes the idea from here on, so what is refused is refused here; a note
\* alone may change without the status.
updateFeatureRequestStatus(i, next, original) ==
  LET t == [of |-> i, next |-> next, dup |-> IF next = "duplicate" THEN Root(original) ELSE NoIdea] IN
  /\ ideas[i].status # "none" /\ ~Locked(i) /\ (original \in Ideas => ideas[original].status # "none")
  /\ statusChanged(t) => ~statusTransitionError(t)
  /\ changing' = changing \cup {t}
  /\ UNCHANGED <<ideas, votes, voting>>

\* The votes go to the original too.
CarriedTo(t) == IF t.next = "duplicate" /\ t.dup \in Ideas /\ statusChanged(t) THEN {<<t.dup, p>> : p \in VotesFor(t.of)} ELSE {}

CommitStatus(t) ==
  LET all == votes \cup CarriedTo(t) IN
  /\ t \in changing /\ changing' = changing \ {t}
  /\ t.dup \in Ideas => ~\E u \in changing \ {t} : u.of = t.dup
  /\ votes' = all
  /\ ideas' = [i \in Ideas |->
       IF i = t.of THEN [ideas[i] EXCEPT !.status = t.next, !.dup = t.dup]
       ELSE IF i = t.dup /\ statusChanged(t) THEN [ideas[i] EXCEPT !.count = Cardinality({p \in Voters : <<i, p>> \in all})]
       ELSE ideas[i]]
  /\ UNCHANGED voting

\* A process dies, or the database breaks a cycle of waits.
GivesUp ==
  /\ \/ \E t \in changing : changing' = changing \ {t} /\ UNCHANGED voting
     \/ \E x \in voting : voting' = voting \ {x} /\ UNCHANGED changing
  /\ UNCHANGED <<ideas, votes>>

-----------------------------------------------------------------------------
FeatureRequestsRoute ==
  \/ \E i \in Ideas : createFeatureRequest(i) \/ \E p \in Voters, vote \in BOOLEAN : setFeatureRequestVote(i, p, vote)
  \/ \E x \in voting : CastVote(x) \/ CountVotes(x) \/ WriteCount(x)
AdminFeatureRequestsRoute ==
  \/ \E i \in Ideas, next \in DOMAIN TRANSITIONS \ {"none"}, original \in Ideas \cup {NoIdea} :
       (next # "duplicate" => original = NoIdea) /\ updateFeatureRequestStatus(i, next, original)
  \/ \E t \in changing : CommitStatus(t)
IdeasNext == FeatureRequestsRoute \/ AdminFeatureRequestsRoute \/ GivesUp

IdeasSpec == IdeasInit /\ [][IdeasNext]_ideaVars

-----------------------------------------------------------------------------
(* Properties *)

\* A duplicate and only a duplicate has an original, another one, whichever
\* way its status or its note is changed.
DuplicatesHaveAnOriginal ==
  \A i \in Ideas : /\ ideas[i].status \in DOMAIN TRANSITIONS /\ ideas[i].count \in 0..Cardinality(Voters)
                   /\ (ideas[i].status = "duplicate") <=> (ideas[i].dup \in Ideas \ {i})

\* A status changes only as the table allows, however many administrators
\* change it at once: each decides from the row it has locked.
OnlyAllowedTransitions ==
  [][\A i \in Ideas : ideas'[i].status # ideas[i].status =>
       ideas'[i].status \in TRANSITIONS[ideas[i].status] \/ ideas[i].status = "none"]_ideaVars

\* Ideas keep to the table of transitions, and duplicates to their originals.
IdeasKeepTheRules == OnlyAllowedTransitions /\ []DuplicatesHaveAnOriginal

\* "Point at the root idea so duplicate chains stay one level deep."
\* Violated: an idea with duplicates may itself become one.
DuplicatesOneLevelDeep == \A i \in Ideas : ideas[i].dup \in Ideas => ideas[ideas[i].dup].status # "duplicate"

\* The count "is recomputed from this table after each change": with no vote on
\* its way it is the number of votes.  Violated: two counts cross.
CountsAreVotes == voting = {} /\ changing = {} => \A i \in Ideas : ideas[i].count = Cardinality(VotesFor(i))
=============================================================================
