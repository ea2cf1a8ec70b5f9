-------------------------- MODULE EndpointLifecycle --------------------------
(***************************************************************************)
(* What endpoint.c promises about the life of an exported endpoint, with  *)
(* the cache and the protocol left out.  The endpoint consists of two     *)
(* objects, the client's resource and the global, and of the struct impl  *)
(* that ties them together.  It is registered at most once, and only      *)
(* while both objects exist; the objects go away one at a time, in either *)
(* order; impl is freed once both are gone, and then nothing happens any  *)
(* more.  Once one object is gone, the teardown runs to its end.          *)
(***************************************************************************)

Objects == {"global", "resource"}

VARIABLES
  objects,  \* the objects that still exist
  phase     \* "unregistered", "registered" or "freed"

lvars == <<objects, phase>>

Init == objects = Objects /\ phase = "unregistered"

(* register_global: the global is exposed to other clients. *)
Register ==
  /\ phase = "unregistered" /\ objects = Objects
  /\ phase' = "registered"
  /\ UNCHANGED objects

(* global_destroy or impl_resource_destroy: one object goes away. *)
Destroy(o) ==
  /\ phase # "freed" /\ o \in objects
  /\ objects' = objects \ {o}
  /\ UNCHANGED phase

(* free(impl): only once neither object is left to point to it. *)
Free ==
  /\ phase # "freed" /\ objects = {}
  /\ phase' = "freed"
  /\ UNCHANGED objects

Next == Register \/ (\E o \in Objects : Destroy(o)) \/ Free

Spec == Init /\ [][Next]_lvars

(* The teardown, once started, is not abandoned halfway. *)
Teardown == objects # Objects /\ ((\E o \in Objects : Destroy(o)) \/ Free)

FairSpec == Spec /\ WF_lvars(Teardown)

=============================================================================
