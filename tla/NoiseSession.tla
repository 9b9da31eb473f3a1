---------------------------- MODULE NoiseSession ----------------------------
(***************************************************************************)
(* What a pair of Noise XX sessions promises (spec 4.4 and 3, NoiseSession): *)
(* each session goes uninit -> in_progress -> transport; a session reaches *)
(* transport only after its peer has sent its last handshake contribution, *)
(* and then knows the peer's static key; encrypt is callable only in       *)
(* transport.  A session whose handshake fails stays where it is: nothing  *)
(* here obliges it to progress.                                            *)
(***************************************************************************)
EXTENDS Naturals

CONSTANTS Roles,      \* the two sessions of one connection
          Peer(_),    \* the other session
          NoKey,      \* no remote static key known
          MaxFrames   \* bound on transport frames per session

VARIABLES hs,         \* session -> "uninit", "in_progress" or "transport"
          committed,  \* session -> it has sent its last handshake message
          peerKey,    \* session -> the remote static key it reports, or NoKey
          sent        \* session -> transport frames encrypted

vars == <<hs, committed, peerKey, sent>>

TypeOK ==
    /\ hs \in [Roles -> {"uninit", "in_progress", "transport"}]
    /\ committed \in [Roles -> BOOLEAN]
    /\ peerKey \in [Roles -> Roles \cup {NoKey}]
    /\ sent \in [Roles -> 0..MaxFrames]

Init ==
    /\ hs = [r \in Roles |-> "uninit"]
    /\ committed = [r \in Roles |-> FALSE]
    /\ peerKey = [r \in Roles |-> NoKey]
    /\ sent = [r \in Roles |-> 0]

Start(r) ==
    /\ hs[r] = "uninit"
    /\ hs' = [hs EXCEPT ![r] = "in_progress"]
    /\ UNCHANGED <<committed, peerKey, sent>>

\* A handshake step of r: it may send its last message, and it may reach
\* transport once the peer has sent its own; reaching transport fixes the
\* remote static key to the peer's.
Step(r) ==
    /\ hs[r] = "in_progress"
    /\ \E c \in {committed[r], TRUE}, done \in BOOLEAN :
          /\ done => committed[Peer(r)]
          /\ committed' = [committed EXCEPT ![r] = c]
          /\ hs' = [hs EXCEPT ![r] = IF done THEN "transport" ELSE "in_progress"]
          /\ peerKey' = [peerKey EXCEPT ![r] = IF done THEN Peer(r) ELSE NoKey]
          /\ <<committed', hs'>> # <<committed, hs>>
    /\ UNCHANGED sent

Encrypt(r) ==
    /\ hs[r] = "transport"
    /\ sent[r] < MaxFrames
    /\ sent' = [sent EXCEPT ![r] = @ + 1]
    /\ UNCHANGED <<hs, committed, peerKey>>

Next == \E r \in Roles : Start(r) \/ Step(r) \/ Encrypt(r)

Spec == Init /\ [][Next]_vars

=============================================================================
