---------------------------- MODULE MCSyncEngine ----------------------------
(***************************************************************************)
(* Instances of SyncEngine for TLC: what other clients store at which      *)
(* hrefs.                                                                  *)
(***************************************************************************)
EXTENDS SyncEngine

CONSTANTS h1, h2, h3, u1, u2, v1

\* u1, which may be malformed at h1 and moves between h1 and h2, beside u2.
TwoResources ==
    [h \in Hrefs |->
        CASE h = h1 -> {b \in Body : b.uid = u1}
          [] h = h2 -> {b \in Body : b.uid = u1 /\ b.form = v1}
          [] h = h3 -> {b \in Body : b.uid = u2 /\ b.form = v1}]

=============================================================================
