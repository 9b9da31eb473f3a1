---------------------------- MODULE NoiseChannel ----------------------------
(***************************************************************************)
(* NoiseChannel (src/beenet/crypto/noise_wrapper.py): an initiator and a  *)
(* responder session driven as scenario S4 drives them: each sends the   *)
(* bytes start_handshake and process_handshake_message return, and feeds  *)
(* every handshake message it receives to process_handshake_message.     *)
(*                                                                         *)
(* The library's NoiseConnection is kept to what the wrapper depends on:  *)
(* the position in the XX pattern (-> e; <- e, ee, s, es; -> s, se), whose *)
(* turn it is to read or write, and handshake_finished, set by whichever  *)
(* of read_message and write_message completes the pattern.  A read that  *)
(* is not the turn, or after the pattern finished, raises and changes      *)
(* nothing; a read of a message that is not the next of the pattern, or   *)
(* is corrupted, raises after the library has advanced its turn and mixed *)
(* the bytes into the handshake hash, so the session never finishes       *)
(* (`dead`).  A static key is the name of its session.                    *)
(***************************************************************************)
EXTENDS Naturals

CONSTANTS Initiator, Responder,
          Faults,      \* subset of {"loss", "dup", "corrupt"}
          NoKey,
          MaxFrames

ASSUME Faults \subseteq {"loss", "dup", "corrupt"}

Roles == {Initiator, Responder}
Peer(r) == IF r = Initiator THEN Responder ELSE Initiator

VARIABLES
    started,   \* self._noise is set (start_handshake ran)
    complete,  \* self._handshake_complete
    remote,    \* self._remote_static_key, or NoKey
    pos,       \* handshake messages of the pattern the library has done
    dead,      \* a failed read left the library's handshake state unusable
    net,       \* handshake messages in flight: [idx, ok]
    sent       \* transport frames encrypted

vars == <<started, complete, remote, pos, dead, net, sent>>

Messages == [idx : 1..3, ok : BOOLEAN]

\* Message i of XX goes to the responder when i is odd.
Dest(m) == IF m.idx % 2 = 1 THEN Responder ELSE Initiator

TypeOK ==
    /\ started \in [Roles -> BOOLEAN]
    /\ complete \in [Roles -> BOOLEAN]
    /\ remote \in [Roles -> Roles \cup {NoKey}]
    /\ pos \in [Roles -> 0..3]
    /\ dead \in [Roles -> BOOLEAN]
    /\ net \subseteq Messages
    /\ sent \in [Roles -> 0..MaxFrames]

Init ==
    /\ started = [r \in Roles |-> FALSE]
    /\ complete = [r \in Roles |-> FALSE]
    /\ remote = [r \in Roles |-> NoKey]
    /\ pos = [r \in Roles |-> 0]
    /\ dead = [r \in Roles |-> FALSE]
    /\ net = {}
    /\ sent = [r \in Roles |-> 0]

\* NoiseConnection: whose turn it is, and handshake_finished.
ReadTurn(r) == IF r = Initiator THEN pos[r] = 1 ELSE pos[r] \in {0, 2}
Finished(r) == pos[r] = 3

Send(i) == [idx |-> i, ok |-> TRUE]

\* The harness takes m off the wire and sends the bytes out returned; with
\* "dup" a copy of m may stay behind, to be replayed.
Exchanged(m, out) ==
    \E rest \in {net, net \ {m}} :
        /\ "dup" \in Faults \/ rest = net \ {m}
        /\ net' = rest \cup out

Received(m) == Exchanged(m, {})

\* start_handshake: a fresh NoiseConnection; the initiator writes and
\* returns message 1, the responder returns no bytes.
StartHandshake(r) ==
    /\ ~started[r]
    /\ started' = [started EXCEPT ![r] = TRUE]
    /\ IF r = Initiator
       THEN /\ pos' = [pos EXCEPT ![r] = 1]
            /\ net' = net \cup {Send(1)}
       ELSE UNCHANGED <<pos, net>>
    /\ UNCHANGED <<complete, remote, dead, sent>>

\* Mutant of ProcessHandshakeMessage: a response is written after every read,
\* handshake_finished never consulted.
ProcessAlwaysWrites(r, m) ==
    /\ m \in net /\ Dest(m) = r /\ started[r]
    /\ IF ~dead[r] /\ ReadTurn(r) /\ ~Finished(r)
       THEN IF m.idx = pos[r] + 1 /\ m.ok
            THEN /\ pos' = [pos EXCEPT ![r] = @ + 2]
                 /\ Exchanged(m, {Send(pos[r] + 2)})
                 /\ UNCHANGED <<complete, remote, dead>>
            ELSE /\ dead' = [dead EXCEPT ![r] = TRUE]
                 /\ Received(m)
                 /\ UNCHANGED <<complete, remote, pos>>
       ELSE /\ Received(m)
            /\ UNCHANGED <<complete, remote, pos, dead>>
    /\ UNCHANGED <<started, sent>>

\* Mutant of ProcessHandshakeMessage: complete after any successful read.
ProcessCompletesOnRead(r, m) ==
    /\ m \in net /\ Dest(m) = r /\ started[r]
    /\ Received(m)
    /\ IF ~dead[r] /\ ReadTurn(r) /\ ~Finished(r)
       THEN IF m.idx = pos[r] + 1 /\ m.ok
            THEN /\ pos' = [pos EXCEPT ![r] = @ + 1]
                 /\ complete' = [complete EXCEPT ![r] = TRUE]
                 /\ remote' = [remote EXCEPT ![r] = Peer(r)]
                 /\ UNCHANGED dead
            ELSE /\ dead' = [dead EXCEPT ![r] = TRUE]
                 /\ UNCHANGED <<complete, remote, pos>>
       ELSE UNCHANGED <<complete, remote, pos, dead>>
    /\ UNCHANGED <<started, sent>>

\* process_handshake_message(m), its result sent by the harness.  The
\* harness starts a session before it reads, as _handle_client and
\* connect_to_peer do, so the "not started" raise is never taken.  Out of
\* turn or after the pattern finished it raises and nothing changes.  Otherwise read_message: a wrong or corrupted message
\* raises and kills the session.  If the read finished the pattern, the
\* session is complete and records the remote static key; else
\* write_message produces the response, which is returned (and sent) even
\* when that write is what finished the pattern.
ProcessHandshakeMessage(r, m) ==
    /\ m \in net /\ Dest(m) = r /\ started[r]
    /\ IF ~dead[r] /\ ReadTurn(r) /\ ~Finished(r)
       THEN IF m.idx = pos[r] + 1 /\ m.ok
            THEN IF pos[r] + 1 = 3
                 THEN /\ pos' = [pos EXCEPT ![r] = 3]
                      /\ complete' = [complete EXCEPT ![r] = TRUE]
                      /\ remote' = [remote EXCEPT ![r] = Peer(r)]
                      /\ Received(m)
                      /\ UNCHANGED dead
                 ELSE /\ pos' = [pos EXCEPT ![r] = @ + 2]
                      /\ Exchanged(m, {Send(pos[r] + 2)})
                      /\ UNCHANGED <<complete, remote, dead>>
            ELSE /\ dead' = [dead EXCEPT ![r] = TRUE]
                 /\ Received(m)
                 /\ UNCHANGED <<complete, remote, pos>>
       ELSE /\ Received(m)
            /\ UNCHANGED <<complete, remote, pos, dead>>
    /\ UNCHANGED <<started, sent>>

\* encrypt: raises unless _handshake_complete; a frame per call.
Encrypt(r) ==
    /\ complete[r]
    /\ sent[r] < MaxFrames
    /\ sent' = [sent EXCEPT ![r] = @ + 1]
    /\ UNCHANGED <<started, complete, remote, pos, dead, net>>

\* The wire: a handshake message lost, or altered in flight.
Lose(m) ==
    /\ "loss" \in Faults /\ m \in net
    /\ net' = net \ {m}
    /\ UNCHANGED <<started, complete, remote, pos, dead, sent>>

Corrupt(m) ==
    /\ "corrupt" \in Faults /\ m \in net /\ m.ok
    /\ net' = (net \ {m}) \cup {[m EXCEPT !.ok = FALSE]}
    /\ UNCHANGED <<started, complete, remote, pos, dead, sent>>

Next ==
    \/ \E r \in Roles : StartHandshake(r) \/ Encrypt(r)
    \/ \E r \in Roles, m \in net : ProcessHandshakeMessage(r, m)
    \/ \E m \in net : Lose(m) \/ Corrupt(m)

\* Each side starts its session and processes what reaches it: the harness
\* awaits every message on the connection.
Fairness ==
    \A r \in Roles :
        /\ WF_vars(StartHandshake(r))
        /\ WF_vars(\E m \in net : ProcessHandshakeMessage(r, m))

Spec == Init /\ [][Next]_vars /\ Fairness

-----------------------------------------------------------------------------
(* Properties                                                              *)

\* The refinement: under the mapping of the wrapper's flags to the states
\* of spec 4.4, and of the library's position to "has sent its last
\* handshake message" (message 3 for the initiator, 2 for the responder),
\* every step of the wrapper is a step of NoiseSession: no session reaches
\* transport, reports a remote static key or encrypts before its peer has
\* completed its part, whatever is lost, replayed or corrupted.
LastWrite(r) == IF r = Initiator THEN 3 ELSE 2

Abstract == INSTANCE NoiseSession WITH
    hs <- [r \in Roles |-> IF ~started[r] THEN "uninit"
                           ELSE IF complete[r] THEN "transport"
                           ELSE "in_progress"],
    committed <- [r \in Roles |-> pos[r] >= LastWrite(r)],
    peerKey <- remote

NoiseSessionRefined == Abstract!Spec

\* Scenario S4: after the three-message handshake both sessions report
\* handshake_complete.
BothComplete == <>(\A r \in Roles : complete[r])

=============================================================================
