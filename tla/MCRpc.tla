-------------------------------- MODULE MCRpc -------------------------------
(***************************************************************************)
(* Rpc with a client and a service.  Conn has one connection for each      *)
(* process and one for each that breaks, so that a process can always      *)
(* connect again; MsgId has a number for each call, heart beat and onopen. *)
(***************************************************************************)
EXTENDS Rpc

MCData  == (Process \X MsgId) \cup {NoData}
MCCmd   == {"ss_msg_client_exit", "x", "y"}
NoInput == {}
=============================================================================
