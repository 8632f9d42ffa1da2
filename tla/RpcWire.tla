------------------------------ MODULE RpcWire -------------------------------
(***************************************************************************)
(* The two Transport objects between one RpcClient and one RpcServer       *)
(* (packages/rpc-core/src/transport.ts), as the runtimes see them: one     *)
(* FIFO of frames per direction and an open flag per side.                 *)
(*                                                                         *)
(* Loopback selects what the platform does with a frame for a side that    *)
(* is closed: LoopbackTransport.sendRaw throws, a MessagePort or a WebView *)
(* bridge drops it.  Frames already posted when their sender closes still  *)
(* arrive; frames on the way to a side that closes are dropped.            *)
(***************************************************************************)
EXTENDS Stream

CONSTANTS MaxCalls,    \* bound on the calls made over the connection
          Loopback,    \* TRUE for createLoopbackTransportPair
          MaxFaults    \* bound on closes, transport errors and bad requests

ASSUME WireAssumption == MaxCalls \in Nat /\ Loopback \in BOOLEAN /\ MaxFaults \in Nat

(* The ids StreamManager.createStream hands out on the client: 1, 3, 5, ... *)
Id == {2 * k - 1 : k \in 1..MaxCalls}

VARIABLES cOpen,       \* isOpen of the client's transport
          sOpen,       \* isOpen of the server's transport
          toServer,    \* frames sent by the client, not yet dispatched
          toClient,    \* frames sent by the server, not yet dispatched
          faults       \* faults injected so far

wireVars == <<cOpen, sOpen, toServer, toClient, faults>>

WireTypeOK ==
  /\ cOpen \in BOOLEAN /\ sOpen \in BOOLEAN
  /\ toServer \in Seq(Frame(Id)) /\ toClient \in Seq(Frame(Id))
  /\ faults \in Nat

WireInit ==
  /\ cOpen = TRUE /\ sOpen = TRUE
  /\ toServer = <<>> /\ toClient = <<>>
  /\ faults = 0

(* send throws when its own side is closed, and on a loopback when the peer is. *)
ClientCanSend == cOpen /\ (Loopback => sOpen)
ServerCanSend == sOpen /\ (Loopback => cOpen)

(* Frames posted by a send that does not throw. *)
PostToServer(frames) ==
  /\ toServer' = (IF sOpen THEN toServer \o frames ELSE toServer)
  /\ UNCHANGED <<cOpen, sOpen, toClient>>
PostToClient(frames) ==
  /\ toClient' = (IF cOpen THEN toClient \o frames ELSE toClient)
  /\ UNCHANGED <<cOpen, sOpen, toServer>>

(* MessageTransportBase.close: the side's frame handlers are gone. *)
CloseClientSide == cOpen /\ cOpen' = FALSE /\ toClient' = <<>> /\ UNCHANGED <<sOpen, toServer>>
CloseServerSide == sOpen /\ sOpen' = FALSE /\ toServer' = <<>> /\ UNCHANGED <<cOpen, toClient>>

(* An event the environment causes, counted against the bound. *)
Fault   == faults < MaxFaults /\ faults' = faults + 1
NoFault == UNCHANGED faults
=============================================================================
