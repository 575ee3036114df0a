---------------------------- MODULE MCReconciler ----------------------------
(***************************************************************************)
(* Instances of Reconciler for TLC.  A TUN that is recreated gets a new    *)
(* index; the Tailscale one keeps its name, or comes back under another.   *)
(***************************************************************************)
EXTENDS Reconciler

MCProxyLinks == {[index |-> 10, name |-> "tun0"], [index |-> 11, name |-> "tun0"]}

MCOneProxy == {[index |-> 10, name |-> "tun0"]}

MCRecreatedTailnet ==
  {[index |-> 20, name |-> "tailscale0"], [index |-> 21, name |-> "tailscale0"]}

MCRenamedTailnet ==
  {[index |-> 20, name |-> "tailscale0"], [index |-> 21, name |-> "tailscale1"]}
=============================================================================
