----------------------------- MODULE MCBackends -----------------------------
(***************************************************************************)
(* Instance of Backends: Mongo real, or Rabbit and Minio, or docker with   *)
(* audit and kube replaced by modules; the rest mocks.  The program enters *)
(* a block with a key.  One document is a record, one a record with a      *)
(* number that no read takes, one no record at all; a document may bring a *)
(* key from elsewhere, or the one of a document that was read.             *)
(***************************************************************************)
EXTENDS Backends

RealOnly(families) == [f \in Families |-> IF f \in families THEN "real" ELSE "mock"]
MCTomls == {[l2 |-> RealOnly({"mongodb"}), modules |-> <<>>],
            [l2 |-> RealOnly({"rabbitmq", "minio"}), modules |-> <<>>],
            [l2 |-> [RealOnly({"docker"}) EXCEPT !["kube"] = "replay"],
             modules |-> <<"audit", "kube">>]}
MCDocs == {"rec", "nan", "list"}
MCOwnKeys == {<<0, "mine">>}
MCBlockKeys == <<"k1">>
MCErrors == {{"auth", "timeout"}}
=============================================================================
