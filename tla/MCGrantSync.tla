---------------------------- MODULE MCGrantSync ----------------------------
(***************************************************************************)
(* Small instances of GrantSync: the lists a connector may return.         *)
(***************************************************************************)
EXTENDS GrantSync, TLC

CONSTANTS s1, s2, s3, e1, e2, w1, w2, t1, t2, d1, india

On(day) == [form |-> "date", day |-> day]
Unreadable == [form |-> "bad", day |-> 1]

Rec(e, title, description, country, deadline, status) ==
    [ext |-> e, text |-> [title |-> title, description |-> description, country |-> country],
     deadline |-> deadline, status |-> status]

(* Every shape of one record: each attribute known or not, each deadline   *)
(* dated, missing or unreadable, a status the source knows or not.         *)
AnyRecord(exts, days) ==
    {Rec(e, t, d, c, dl, st) :
        e \in exts, t \in {t1, t2}, d \in {Empty, d1}, c \in {Unknown, india},
        dl \in {NoDate, Unreadable} \cup {On(day) : day \in days},
        st \in {"unknown", "open", "closed"}}

(* One opportunity, seen by one source in every shape. *)
ShapeFeed == {<<r>> : r \in AnyRecord({e1}, {1, 2})}

(* A few records that meet: two sources, two external ids, one listing     *)
(* that moves in its text alone, one in its deadline alone, lists that     *)
(* name one external id twice or one grant under two external ids.         *)
Base(e) == Rec(e, t1, d1, india, On(1), "unknown")
Partial(e) == Rec(e, t1, Empty, Unknown, NoDate, "unknown")
Reworded(e) == Rec(e, t2, d1, india, On(1), "unknown")
Postponed(e) == Rec(e, t1, d1, india, On(2), "open")

(* Where two syncs run at once, the lists of one record suffice: every     *)
(* step of the loop is already interleaved with the other sync.            *)
RaceFeed == {<<Base(e1)>>, <<Partial(e1)>>, <<Postponed(e1)>>, <<Base(e1), Reworded(e1)>>}

MeetFeed == {<<Base(e1)>>, <<Partial(e1)>>, <<Postponed(e1)>>, <<Reworded(e1)>>,
             <<Base(e1), Base(e2)>>, <<Base(e1), Reworded(e1)>>, <<Reworded(e2), Base(e2)>>}

(* Two sources of the same configuration are interchangeable. *)
SourcesAlike == Permutations({s1, s2})

SerialFeed == ShapeFeed \cup MeetFeed

=============================================================================
