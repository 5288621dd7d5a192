------------------------------- MODULE MCClients -------------------------------
(* A small instance of Clients for TLC.                                      *)
EXTENDS Clients, TLC

\* A filter of several pages, one of a single page, one without a result.
PagesOf == "f" :> 3 @@ "g" :> 1 @@ "h" :> 0
===============================================================================
