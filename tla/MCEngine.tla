------------------------------ MODULE MCEngine ------------------------------
(***************************************************************************)
(* Two workers and three connections, of which two fit: connections come   *)
(* and go while epoll_wait may fail once and the server is closed.         *)
(***************************************************************************)
EXTENDS Engine
=============================================================================
