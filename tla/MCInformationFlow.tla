--------------------------- MODULE MCInformationFlow ---------------------------
(* A small instance of InformationFlow for TLC.                            *)
EXTENDS InformationFlow, TLC

CONSTANTS i1, a1, a2, a3, x1, x2, x3, y1

(* A page of the web, and a summary that a tool outside made.              *)
Outside == {<<"EXTERNAL_CONTENT", "EXTERNAL_UNTRUSTED", {}>>, <<"OTHER", "INTERNAL_TRUSTED", {}>>}

FlowTools == {"web.search", "database.read", "agent.transform", "external.http_post",
              "secrets.vault_read"}

Body == {"body_artifact_id"}
=============================================================================
