----------------------------- MODULE PollerMain -----------------------------
(***************************************************************************)
(* main of the poller around the callback: options, the pcap handle, the   *)
(* filter, the pairs of dispatch_queue, pcap_loop until it fails, and the  *)
(* clean-up.  pcap is external: any of its calls may fail.  Which pairs    *)
(* main registers is a matter of which of its lines are commented out.     *)
(***************************************************************************)
EXTENDS PacketCapture

CONSTANT Queues    \* what main may register: sequences of pairs

(* A processor is an object and has one class.                             *)
ASSUME MainAssumption ==
  \A q \in Queues :
    /\ q \in Seq(Pair)
    /\ \A i, j \in DOMAIN q :
         q[i].processor = q[j].processor => q[i].class = q[j].class

VARIABLES
  stage,    \* where main is
  filter    \* the filter: "none", "compiled", "set" on the handle, "freed"

mainVars == <<stage, filter>>

MainInit ==
  /\ Init
  /\ stage = "options"
  /\ filter = "none"

(* On to the next call, or out with a message and an exit status.          *)
Try(here, next) ==
  /\ stage = here
  /\ stage' \in {next, "exit"}

(* Option -f is accepted and has no effect.  The netmask may stay unknown. *)
GetOptions ==
  /\ Try("options", "open")
  /\ UNCHANGED <<filter, vars>>

OpenDevice ==
  /\ Try("open", "datalink")
  /\ UNCHANGED <<filter, vars>>

CheckDatalink ==
  /\ Try("datalink", "compile")
  /\ UNCHANGED <<filter, vars>>

(* The filter is compiled; pcap_setfilter is never called.                 *)
CompileFilter ==
  /\ Try("compile", "register")
  /\ filter' = IF stage' = "register" THEN "compiled" ELSE filter
  /\ UNCHANGED vars

RegisterDispatcher ==
  /\ stage = "register"
  /\ \E q \in Queues :
       /\ IsPrefix(dispatch_queue, q) /\ dispatch_queue # q
       /\ AddDispatcher(q[Len(dispatch_queue) + 1])
       /\ stage' = IF dispatch_queue' = q THEN "loop" ELSE "register"
  /\ UNCHANGED filter

(* A filter that is set keeps other frames from the callback.              *)
Loop ==
  /\ stage = "loop"
  /\ \/ \E f \in Captured : (filter = "set" => Passes(f)) /\ Capture(f)
     \/ Callback
  /\ UNCHANGED mainVars

(* pcap_loop returns when reading from the device fails.                   *)
EndLoop ==
  /\ stage = "loop"
  /\ step = "wait"
  /\ stage' = "exit"
  /\ filter' = "freed"
  /\ UNCHANGED vars

MainNext ==
  \/ GetOptions
  \/ OpenDevice
  \/ CheckDatalink
  \/ CompileFilter
  \/ RegisterDispatcher
  \/ Loop
  \/ EndLoop

MainSpec == MainInit /\ [][MainNext]_<<vars, mainVars>>
-----------------------------------------------------------------------------
(* The poller prints its filter expression, ip[9] == 253, and looks at     *)
(* frames that match it.                                                   *)
OnlyFilteredFrames == step # "wait" => Passes(frame)
=============================================================================
