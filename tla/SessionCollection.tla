--------------------------- MODULE SessionCollection ---------------------------
(***************************************************************************)
(* The rows the server keeps under the account key.  SessionStore has one  *)
(* document; here is why there is one, and when there may be more: without *)
(* the unique index of ensure_indexes, which a start tolerates to fail, an *)
(* upsert is a match and, later, an insert.                                *)
(***************************************************************************)
EXTENDS Naturals

CONSTANT Requests   \* the requests that save or delete the session

VARIABLES
    rows,      \* how many documents carry the account key
    indexed,   \* whether unique_account_key exists
    sent       \* the call of each request the server is still to perform

collectionVars == <<rows, indexed, sent>>

ServerCalls == {"none", "match", "insert", "delete"}

CollectionTypeOK ==
    /\ rows \in Nat
    /\ indexed \in BOOLEAN
    /\ sent \in [Requests -> ServerCalls]

CollectionInit ==
    /\ rows = 0
    /\ indexed = FALSE
    /\ sent = [r \in Requests |-> "none"]

\* update_one(..., upsert=True) finds the document, or is to insert one.
Match(r) ==
    /\ sent[r] = "match"
    /\ sent' = [sent EXCEPT ![r] = IF rows > 0 THEN "none" ELSE "insert"]
    /\ UNCHANGED <<rows, indexed>>

\* With the index a second row is refused, tried again or reported.
Insert(r) ==
    /\ sent[r] = "insert"
    /\ sent' = [sent EXCEPT ![r] = "none"]
    /\ rows' = IF indexed /\ rows > 0 THEN rows ELSE rows + 1
    /\ UNCHANGED indexed

\* Mutant: a document is counted as removed whether there was one or not.
DeleteOneBlind(r) ==
    /\ sent[r] = "delete"
    /\ sent' = [sent EXCEPT ![r] = "none"]
    /\ rows' = rows - 1
    /\ UNCHANGED indexed

\* delete_one removes one document.
DeleteOne(r) ==
    /\ sent[r] = "delete"
    /\ sent' = [sent EXCEPT ![r] = "none"]
    /\ rows' = IF rows > 0 THEN rows - 1 ELSE 0
    /\ UNCHANGED indexed

\* Mutant: the index is created without unique=True.
CreateIndexPlain == indexed' = FALSE

\* create_index fails when the rows it would make unique are not.
CreateIndex ==
    /\ rows <= 1
    /\ indexed' = TRUE

ServerStep(r) == Match(r) \/ Insert(r) \/ DeleteOne(r)
=============================================================================
