-------------------------------- MODULE MCTcp --------------------------------
(* Module Tcp with applications on top: those of the repository (TcpApps),  *)
(* and one that uses the interface as freely as tcp.h allows.               *)
EXTENDS TcpApps

\* An application that uses the whole of tcp.h: it writes and closes in any
\* event of an open connection, and frees the socket once it is told "closed".
AnyCalls == [NoCalls EXCEPT !["incoming"] = {"accept"},
                            !["established"] = {"write", "close"},
                            !["data_received"] = {"read", "write", "close"},
                            !["data_acked"] = {"write", "close"},
                            !["idle"] = {"write", "close"},
                            !["closed"] = {"free"}]

AnyMainCalls == {"alloc", "listen", "connect", "read", "write", "close", "free"}

MCAnyCalls == [any |-> AnyCalls]
MCAnyMainCalls == [any |-> AnyMainCalls]
MCEchodCalls == [echod |-> EchodCalls]
MCEchodMainCalls == [echod |-> EchodMainCalls]
MCHttpdCalls == [httpd |-> HttpdCalls]
MCHttpdMainCalls == [httpd |-> HttpdMainCalls]
MCTpCalls == [tp |-> TpCalls]
MCTpMainCalls == [tp |-> TpMainCalls]
MCEchodTpCalls == [echod |-> EchodCalls, tp |-> TpCalls]
MCEchodTpMainCalls == [echod |-> EchodMainCalls, tp |-> TpMainCalls]
=============================================================================
