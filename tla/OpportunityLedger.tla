------------------------- MODULE OpportunityLedger -------------------------
(***************************************************************************)
(* What the import pipeline promises to the live feed, whoever runs it and *)
(* however often (the docstrings of src/ingestion/sync_grants.py and of    *)
(* OpportunityChange, api/db/models.py): an imported opportunity is never  *)
(* dropped, known text and deadlines are never erased, and no field of it  *)
(* moves without a row of the change log that says so.                     *)
(***************************************************************************)
CONSTANTS
    Opportunity,  \* identities of imported opportunities
    Fields,       \* the tracked fields of one
    Blank,        \* the values that carry no information
    Absent        \* not imported

VARIABLES
    catalogue,    \* the value of every field of every imported opportunity
    log           \* what has been logged: <<entry, opportunity, field, value>>

Init ==
    /\ catalogue = [o \in Opportunity |-> Absent]
    /\ log = {}

(* The fields of an imported opportunity that this step moves. *)
Moving(o) == {f \in Fields : catalogue'[o][f] # catalogue[o][f]}

Kept(o) == catalogue[o] # Absent => catalogue'[o] # Absent

Explained(o) ==
    catalogue[o] # Absent =>
        \A f \in Moving(o) : \E e \in log' \ log :
            e[2] = o /\ e[3] = f /\ e[4] = catalogue'[o][f]

NotErased(o) ==
    catalogue[o] # Absent =>
        \A f \in Moving(o) : catalogue'[o][f] \notin Blank

Publish ==
    /\ log \subseteq log'
    /\ \A o \in Opportunity : Kept(o) /\ Explained(o) /\ NotErased(o)

Spec == Init /\ [][Publish]_<<catalogue, log>>

=============================================================================
