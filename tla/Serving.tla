------------------------------ MODULE Serving ------------------------------
(***************************************************************************)
(* What serves a profile, one part at a time: the store that keeps it, the *)
(* routing that is loaded from it, the outbounds that are set up and their *)
(* transports, one HTTP exchange, one UDP session, the control API's       *)
(* server, the log, and the evidence an instance leaves.  These parts      *)
(* share no state that another part's properties read, so a behaviour      *)
(* follows one of them from its first state while the others rest in       *)
(* theirs.                                                                 *)
(***************************************************************************)
EXTENDS Store, Routing, Forward, Datagrams, ControlApi, Outbound, Transport, EventLog, Evidence

VARIABLE part

planeVars == <<routingVars, forwardVars, datagramVars, outboundVars, transportVars>>
instanceVars == <<apiServerVars, eventLogVars, evidenceVars>>
servingVars == <<vars, planeVars, instanceVars, part>>

Parts == {"store", "routing", "forward", "datagrams", "outbound", "transport",
          "control", "log", "evidence"}

\* The inputs of the parts that rest are fixed.
RestingDocument == CHOOSE d \in Documents : TRUE
RestingRequest == CHOOSE r \in Requests : TRUE
RestingSetup == CHOOSE s \in Setups : TRUE

ServingInit ==
    /\ part \in Parts
    /\ Init
    /\ RoutingInit /\ (part # "routing" => document = RestingDocument)
    /\ ForwardInit /\ (part # "forward" => request = RestingRequest /\ whole = "never")
    /\ DatagramInit /\ (part # "datagrams" => broken = 1)
    /\ OutboundInit
    /\ TransportInit /\ (part # "transport" => answer = "none")
    /\ ControlInit /\ (part # "control" => setup = RestingSetup)
    /\ LogInit
    /\ EvidenceInit /\ (part # "evidence" => exitMarker = NoMarker)

\* Only the store must always be able to go on: documents are refused, and
\* exchanges, sessions and servers end.
ServingNext ==
    /\ UNCHANGED part
    /\ \/ part = "store" /\ UNCHANGED <<planeVars, instanceVars>> /\ Next
       \/ /\ part \in {"routing", "forward", "datagrams", "outbound", "transport"}
          /\ UNCHANGED <<vars, instanceVars>>
          /\ \/ /\ part = "routing" /\ UNCHANGED <<forwardVars, datagramVars, outboundVars, transportVars>>
                /\ RoutingNext
             \/ /\ part = "forward" /\ UNCHANGED <<routingVars, datagramVars, outboundVars, transportVars>>
                /\ ForwardNext
             \/ /\ part = "datagrams" /\ UNCHANGED <<routingVars, forwardVars, outboundVars, transportVars>>
                /\ DatagramNext
             \/ /\ part = "outbound" /\ UNCHANGED <<routingVars, forwardVars, datagramVars, transportVars>>
                /\ OutboundNext
             \/ /\ part = "transport" /\ UNCHANGED <<routingVars, forwardVars, datagramVars, outboundVars>>
                /\ TransportNext
       \/ /\ part \in {"control", "log", "evidence"}
          /\ UNCHANGED <<vars, planeVars>>
          /\ \/ part = "control" /\ UNCHANGED <<eventLogVars, evidenceVars>> /\ ControlNext
             \/ part = "log" /\ UNCHANGED <<apiServerVars, evidenceVars>> /\ LogNext
             \/ part = "evidence" /\ UNCHANGED <<apiServerVars, eventLogVars>> /\ EvidenceNext
       \/ part # "store" /\ UNCHANGED <<vars, planeVars, instanceVars>>

ServingSpec == ServingInit /\ [][ServingNext]_servingVars
=============================================================================
