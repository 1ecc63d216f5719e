------------------------------ MODULE TcpApps ------------------------------
(***************************************************************************)
(* The applications of app/ as clients of tcp.h: ...Calls says, by event,  *)
(* what the socket callback may call while it runs; ...MainCalls what the  *)
(* application calls from main() or from a timer of its own.  How often    *)
(* and in which order is left open, as a callback decides by the data.     *)
(***************************************************************************)
EXTENDS Tcp

NoCalls == [event \in Events |-> {}]

\* app/echod.c, echo_incoming and echod_start.
EchodCalls == [NoCalls EXCEPT !["incoming"] = {"accept"},
                              !["reset"] = {"read", "write"},
                              !["data_received"] = {"read", "write"},
                              !["closed"] = {"free"}]
\* app/httpd.c, httpd_socket_callback and httpd_start.
HttpdCalls == [NoCalls EXCEPT !["incoming"] = {"accept"},
                              !["data_received"] = {"read", "write"}]
\* app/tp.c, tp_socket_callback; tp_get_time and tp_timer_callback.
TpCalls == [NoCalls EXCEPT !["data_received"] = {"read", "close"},
                           !["closed"] = {"free"}]

EchodMainCalls == {"alloc", "listen"}
HttpdMainCalls == {"alloc", "listen"}
TpMainCalls == {"alloc", "connect", "close", "free"}
=============================================================================
