------------------------------ MODULE MCLines ------------------------------
(***************************************************************************)
(* What reads lines, for TLC: the bridge those of its child, the public    *)
(* clients those of msysd.  They are different processes and share no      *)
(* state, so that it is enough that in each behaviour one of them begins   *)
(* and the other does not.                                                 *)
(***************************************************************************)
EXTENDS StdioBridge, PublicCall

lineVars == <<vars, publicVars>>

LineInit == Init /\ PublicInit

Bridge(A) == PublicInit /\ A /\ UNCHANGED publicVars
Public(A) == Init /\ A /\ UNCHANGED vars

\* The actions are named one by one, so that TLC counts the steps of each.
BridgeNext ==
    \/ Bridge(InLoop) \/ Bridge(InRead) \/ Bridge(InEof) \/ Bridge(InWrite) \/ Bridge(InBroken)
    \/ Bridge(OutLoop) \/ Bridge(OutRead) \/ Bridge(OutEof) \/ Bridge(OutSend) \/ Bridge(OutBroken)
    \/ Bridge(Poll) \/ Bridge(Get) \/ Bridge(Grace) \/ Bridge(Terminate) \/ Bridge(Terminated)
    \/ Bridge(Wait) \/ Bridge(Stop) \/ Bridge(Shut) \/ Bridge(CloseInput) \/ Bridge(CloseOutput)
    \/ Bridge(Join) \/ Bridge(Exited)
    \/ Bridge(Start) \/ Bridge(Emit(0)) \/ Bridge(Emit(nLine + 1))
    \/ Bridge(EndOutput) \/ Bridge(EndInput) \/ Bridge(ReadInput) \/ Bridge(Exit)
    \/ Bridge(PeerSend(0)) \/ Bridge(PeerSend(nSent + 1))
    \/ Bridge(PeerRead) \/ Bridge(PeerClose)

ClientsNext == \E c \in Caller :
    \/ Public(Begin(c)) \/ Public(Count(c)) \/ Public(Connect(c)) \/ Public(Send(c))
    \/ Public(Receive(c)) \/ Public(ReceiveEof(c)) \/ Public(ReceiveTimeout(c))
    \/ Public(\E line \in Offered(c) : ServerBegin(c, line))
    \/ \E n \in 1..(MaxPacket + 2) : Public(ServerWrite(c, n))
    \/ Public(ServerRead(c)) \/ Public(ServerClose(c))

\* Fairness asks for no step of the one that has not begun.
LineSpec ==
    LineInit /\ [][BridgeNext \/ ClientsNext]_lineVars /\ Fairness /\ PublicFairness
=============================================================================
