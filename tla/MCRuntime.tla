------------------------------ MODULE MCRuntime ------------------------------
(* A link, a namespace and a container that another tool may touch. *)
EXTENDS Capture

MCForeignThings ==
    {Veth("gw300"), Netns("a"), Container("peer")}

==============================================================================
