------------------------------ MODULE MCKernel ------------------------------
(***************************************************************************)
(* Kernel for TLC: what init puts in its spawn requests.  Handle 0 is its  *)
(* inbox and handle 1 the first channel it creates.                        *)
(***************************************************************************)
EXTENDS Kernel

Give(h, rights) == [handle |-> h, rights |-> rights]

(* One service takes a channel over with both rights, as the receivers of  *)
(* init's table do, and others send to it.  Init keeps SEND, and asks for  *)
(* more than it has once RECV is away.                                     *)
MCGrantLists ==
  { <<Give(1, {"recv"}), Give(1, {"send"})>>,
    <<Give(1, {"send"})>> }
=============================================================================
