------------------------------- MODULE Connect ------------------------------
(***************************************************************************)
(* Connecting a socket: socket::connect with its timeout (net/socket/      *)
(* api.cc), Basic::connect (net/socket/basic.cc), Connector::connect for a *)
(* connection that is kept alive (net/connector.cc), and the addresses     *)
(* that are written as text and parsed again (net/address.cc).             *)
(*                                                                         *)
(* The system goes on with a connection attempt after connect() has given  *)
(* up waiting for it, and one socket object is used for every attempt, so  *)
(* an attempt may meet what is left of an earlier one.  An address is its  *)
(* family, the groups of its host and its port.                            *)
(***************************************************************************)
EXTENDS Naturals, Sequences, FiniteSets

CONSTANTS
  Address,   \* the addresses asked for
  Loopback,  \* 127.0.0.1 with port 0
  Null,
  MaxCalls, MaxLosses  \* bounds: calls of connect, connections lost

VARIABLES
  up,       \* the addresses that answer
  state,    \* the socket: "none", "idle", "connecting", "established", "failed"
  told,     \* ::connect has reported that the socket is connected
  target,   \* where the system connects it
  err,      \* SO_ERROR is set
  pc,       \* where the call is
  asked,    \* the address this call is for
  result,   \* what the last call has returned
  stale,    \* history: this socket was already connecting to another address
  peer,     \* history: the peer of the last connection
  calls, losses  \* counters for the bounds

netVars == <<up, state, told, target, err>>
callVars == <<pc, asked, result, stale>>
vars == <<netVars, callVars, peer, calls, losses>>

Init ==
  /\ up \in SUBSET Address
  /\ state = "none" /\ told = FALSE /\ target = Null /\ err = FALSE
  /\ pc = "idle" /\ asked = Null /\ result = FALSE /\ stale = FALSE
  /\ peer = Null /\ calls = 0 /\ losses = 0

-----------------------------------------------------------------------------
(* Address::text and parse_address: a v6 host is written without brackets,   *)
(* and what has no bracket is parsed as a host alone.                        *)
Text(a) == [family |-> a.family, words |-> Append(a.host, a.port)]

Parse(t) ==
  IF t.family = 4
    THEN [family |-> 4, host |-> SubSeq(t.words, 1, Len(t.words) - 1),
          port |-> t.words[Len(t.words)]]
    ELSE [family |-> 6, host |-> t.words, port |-> 0]

(* peer_address(): of a socket that is not connected there is none, and the  *)
(* text of no address is ":0".                                               *)
PeerText == IF state = "established" THEN Text(target) ELSE Text(Loopback)

-----------------------------------------------------------------------------
(* Basic::connect.                                                           *)

(* A socket with an error, or none at all, is made anew; asking clears the   *)
(* error.                                                                    *)
Begin(a) ==
  /\ pc = "idle" /\ calls < MaxCalls
  /\ calls' = calls + 1
  /\ asked' = a /\ result' = FALSE /\ err' = FALSE
  /\ IF state = "none" \/ err
       THEN state' = "idle" /\ told' = FALSE /\ target' = Null /\ stale' = FALSE
       ELSE /\ stale' = (target \notin {Null, a})
            /\ UNCHANGED <<state, told, target>>
  /\ pc' = "connect"
  /\ UNCHANGED <<up, peer, losses>>

ConnectTo(a) == Begin(a)

(* Connector::connect of a connection, without an address.                   *)
Reconnect == Begin(Parse(PeerText))

(* ::connect, with the socket non-blocking.  An idle socket begins to        *)
(* connect, or is refused at once; one that has connected is reported once;  *)
(* one that failed is reported and may be used again; otherwise the call is  *)
(* refused.                                                                  *)
SysConnect ==
  /\ pc = "connect"
  /\ \/ /\ state = "idle"
        /\ state' = "connecting" /\ target' = asked /\ told' = FALSE
        /\ pc' = "select" /\ UNCHANGED <<err, result>>
     \/ /\ state = "idle"
        /\ pc' = "idle" /\ UNCHANGED <<state, told, target, err, result>>
     \/ /\ state = "established" /\ ~told
        /\ told' = TRUE /\ result' = TRUE /\ pc' = "idle"
        /\ UNCHANGED <<state, target, err>>
     \/ /\ state = "failed"
        /\ state' = "idle" /\ target' = Null /\ err' = FALSE /\ pc' = "idle"
        /\ UNCHANGED <<told, result>>
     \/ /\ state = "connecting" \/ (state = "established" /\ told)
        /\ pc' = "idle"
        /\ UNCHANGED <<state, told, target, err, result>>
  /\ UNCHANGED <<up, asked, stale, peer, calls, losses>>

MutantConnected == TRUE

(* getsockopt(SO_ERROR) is zero.                                             *)
Connected == ~err

(* select: the socket is ready and its error is asked for ...                *)
SelectReady ==
  /\ pc = "select" /\ state # "connecting"
  /\ result' = Connected /\ err' = FALSE
  /\ pc' = "idle"
  /\ UNCHANGED <<up, state, told, target, asked, stale, peer, calls, losses>>

(* ... or the time is over.                                                  *)
SelectTimeout ==
  /\ pc = "select"
  /\ pc' = "idle"
  /\ UNCHANGED <<netVars, asked, result, stale, peer, calls, losses>>

-----------------------------------------------------------------------------
(* The system and the peers.                                                 *)

Established ==
  /\ state = "connecting" /\ target \in up
  /\ state' = "established" /\ peer' = target
  /\ UNCHANGED <<up, told, target, err, callVars, calls, losses>>

Refused ==
  /\ state = "connecting"
  /\ state' = "failed" /\ err' = TRUE
  /\ UNCHANGED <<up, told, target, callVars, peer, calls, losses>>

(* The connection is lost: reset by the peer, or closed by Manager::remove.  *)
Lost ==
  /\ state = "established" /\ pc = "idle" /\ losses < MaxLosses
  /\ losses' = losses + 1
  /\ result' = FALSE
  /\ \/ state' = "failed" /\ err' = TRUE /\ UNCHANGED <<told, target>>
     \/ state' = "none" /\ err' = FALSE /\ told' = FALSE /\ target' = Null
  /\ UNCHANGED <<up, pc, asked, stale, peer, calls>>

PeersChange ==
  /\ losses < MaxLosses
  /\ losses' = losses + 1
  /\ up' \in SUBSET Address
  /\ UNCHANGED <<state, told, target, err, callVars, peer, calls>>

-----------------------------------------------------------------------------
CallStep == SysConnect \/ SelectReady \/ SelectTimeout

Next ==
  \/ \E a \in Address : ConnectTo(a)
  \/ Reconnect
  \/ CallStep
  \/ Established \/ Refused \/ Lost \/ PeersChange

Spec == Init /\ [][Next]_vars

-----------------------------------------------------------------------------
(* When connect returns true the socket is connected, and to the address     *)
(* that was asked for, unless an earlier attempt on the same socket went     *)
(* elsewhere: a timeout or a refusal is never taken for a connection, even   *)
(* if the answer to an earlier attempt comes late.                           *)
ConnectedAsAsked ==
  pc = "idle" /\ result => state = "established" /\ (target = asked \/ stale)

(* An address of family 4 comes back from its text as it was, so that a      *)
(* reconnect while the connection still stands names the same peer.          *)
TextRoundTrip ==
  state = "established" /\ target.family = 4 => Parse(PeerText) = target

-----------------------------------------------------------------------------
(* What the code does not ensure.                                            *)

(* A socket left connecting to one address serves a call for another.        *)
ConnectedToAsked == pc = "idle" /\ result => target = asked

(* Connector::connect without an address goes to the peer of the connection: *)
(* not with a v6 address, and not once the connection is lost.               *)
ReconnectsToPeer == peer # Null /\ state = "established" => Parse(PeerText) = peer

ReconnectsAfterLoss == peer # Null /\ pc = "idle" => Parse(PeerText) = peer
=============================================================================
