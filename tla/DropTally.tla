------------------------------ MODULE DropTally ------------------------------
(***************************************************************************)
(* What KernelDrops of capture/manager.go returns as time passes: the sum  *)
(* of the tallies of the sockets in m.sockets. A tally starts from zero    *)
(* when its socket is replaced, and frames dropped on a socket that is not *)
(* yet in m.sockets show up when it is put there. Assumed of the kernel:   *)
(* SocketStats fails on a closed socket only, so no tally is skipped in    *)
(* one sum and added again in the next. Capture implements this            *)
(* specification; Collector uses it as its environment.                    *)
(***************************************************************************)
EXTENDS Naturals

CONSTANT MaxDrops      (* bound on the frames the kernel drops              *)

VARIABLES
  tpDrops,   (* what KernelDrops would return now                           *)
  unseen,    (* drops on sockets that may still enter m.sockets             *)
  dropped    (* history: all frames the kernel dropped                      *)

drops == <<tpDrops, unseen, dropped>>

DropsInit == tpDrops = 0 /\ unseen = 0 /\ dropped = 0

(* The kernel drops a frame on a socket in m.sockets, on one about to be   *)
(* put there, or on one already taken out.                                 *)
KernelDrop ==
  /\ dropped < MaxDrops
  /\ dropped' = dropped + 1
  /\ \/ tpDrops' = tpDrops + 1 /\ UNCHANGED unseen
     \/ unseen' = unseen + 1 /\ UNCHANGED tpDrops
     \/ UNCHANGED <<tpDrops, unseen>>

(* Sockets leave m.sockets with their tallies and others enter with theirs.*)
SocketsChange ==
  \E gone \in 0 .. tpDrops, new \in 0 .. unseen :
    /\ tpDrops' = tpDrops - gone + new
    /\ unseen' \in 0 .. unseen - new
    /\ UNCHANGED dropped

DropsSpec == DropsInit /\ [][KernelDrop \/ SocketsChange]_drops
=============================================================================
