------------------------------ MODULE MCVault ------------------------------
(***************************************************************************)
(* Small stores for TLC, told apart by `part`:                             *)
(*   vault    the records of a vault;                                      *)
(*   cache    a vault with its cache of validations;                       *)
(*   move     a relay node's store that moves to another node, with two    *)
(*            messages, a newcomer and requests that outlive their pass;   *)
(*   chain    three nodes and one message: the store moves on once more,   *)
(*            or is granted to two targets;                                *)
(*   renewal  two nodes, one message, and a directory that changes.        *)
(***************************************************************************)
EXTENDS ValidationCache, NodeTransfer

CONSTANTS Middle, Third, Second
VARIABLE part

\* "base" is what "claim" was derived from; "fix" replaces "claim".
MCRelations ==
    {[source |-> "claim", type |-> "derived_from", target |-> "base"],
     [source |-> "fix", type |-> "supersedes", target |-> "claim"]}

MCTravelling == {{"claim"}, {"fix"}, {"base", "claim"}}

MCInit == CacheInit /\ NodeInit /\ part \in {"vault", "cache", "move", "chain", "renewal"}

\* Two nodes move a store but for the chain, which has one letter and nobody
\* who joins, as have renewals; directories change in these only.
NodePart ==
    /\ part # "chain" =>
        /\ relay'[Third] = relay[Third]
        /\ \A p \in Pass : pass'[p] # Idle => pass'[p].grant.target # Third
        /\ directory'.standing[Third] = directory.standing[Third]
    /\ part = "chain" => late' = {}
    /\ part \in {"chain", "renewal"} =>
        \A n \in Node : relay'[n].challenges = {} /\ objects'[n][Second] = "none"
    /\ part # "renewal" => UNCHANGED directory

\* The validations are about "claim" and "base" only.
MCNext ==
    /\ UNCHANGED part
    /\ \/ part = "vault" /\ AdmissionNext /\ UNCHANGED <<epoch, cache, job, nodeVars>>
       \/ part = "cache" /\ CacheNext /\ UNCHANGED nodeVars /\ row'["fix"] = Absent
          /\ (job' # NoJob => Cardinality(job'.roots) = 1 /\ job'.rows["fix"] = Absent)
       \/ part \in {"move", "chain", "renewal"} /\ NodeNext /\ NodePart /\ UNCHANGED cacheVars

MCSpec == MCInit /\ [][MCNext]_<<cacheVars, nodeVars, part>>

Posted(m) == \E n \in Node : objects[n][m] # "none"
Invited == \E n \in Node : relay[n].challenges \cup relay[n].joined # {}

\* The first node may be exported, the middle one after an import, the third one
\* not; Second comes after another letter.  Nobody is invited where there are two
\* letters or a request that outlived its pass.
NodeBound ==
    /\ Frozen(Middle) => relay[Middle].import # None
    /\ ~Frozen(Third)
    /\ Posted(Second) => \E m \in Message \ {Second} : Posted(m)
    /\ Invited => ~Posted(Second) /\ late = {}

\* What is to be delivered, and to whom a record is pinned, is read by no
\* validation: the cache's behaviours are told apart by the rest.
MCView ==
    CASE part = "vault" -> <<part, vaultVars, trust>>
      [] part = "cache" -> <<part, row, trust, epoch, cache,
            IF job = NoJob THEN job ELSE [job EXCEPT !.authors = <<>>, !.announced = {}]>>
      [] OTHER -> <<part, nodeVars>>
=============================================================================
