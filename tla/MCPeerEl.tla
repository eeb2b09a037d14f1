------------------------------ MODULE MCPeerEl ------------------------------
(***************************************************************************)
(* PeerEl for TLC, in two scenarios that meet in the link and the          *)
(* keepalive: about a talk, with everything a conference and the bridge    *)
(* say, or about the path to the conference, with every way to lose it.    *)
(* Each leaves alone what only multiplies the states of the other.         *)
(***************************************************************************)
EXTENDS PeerEl

VARIABLE about  \* the scenario

\* The loop is not held up, the proxy stays and the conference does not move.
Talk ==
  /\ about = "talk"
  /\ held' = 0
  /\ ~cut'
  /\ confAddr' = confAddr

\* The conference is heard of by its own SDES alone, and the bridge sends voice
\* only while the connection to the proxy is down.
Path ==
  /\ about = "path"
  /\ toUs' \subseteq {"HOST"}
  /\ phase' = "write" => Down

MCInit == Init /\ about \in {"talk", "path"}

MCNext == Next /\ (Talk \/ Path) /\ about' = about

MCSpec ==
  /\ MCInit
  /\ [][MCNext]_<<vars, about>>
  /\ Fairness
=============================================================================
