---------------------------- MODULE UpdateService ---------------------------
(***************************************************************************)
(* What the OTA updater promises to those who request updates: one update  *)
(* at a time; an accepted update is carried out before the next one is     *)
(* accepted; and what is reported at its end is whether the image was      *)
(* installed.  Requests that overtake each other end the promise until the *)
(* device restarts.                                                        *)
(***************************************************************************)
VARIABLES offered,   \* the service exists since the last restart
          service,   \* idle, accepted, running, installed, raced
          report     \* none, succeed, failed

AtWork == service \in {"running", "installed"}

Becomes(next, said) == offered /\ offered' = TRUE /\ service' = next /\ report' = said

ServiceInit == offered = FALSE /\ service = "idle" /\ report = "none"

Offer == ~offered /\ offered' = TRUE /\ UNCHANGED <<service, report>>

Accept == service = "idle" /\ Becomes("accepted", "none")

Begin == service = "accepted" /\ Becomes("running", "none")

Install == service = "running" /\ report = "none" /\ Becomes("installed", "none")

Report ==
  /\ AtWork /\ report = "none"
  /\ Becomes(service, IF service = "installed" THEN "succeed" ELSE "failed")

End == AtWork /\ report # "none" /\ Becomes("idle", "none")

Race == Becomes("raced", "none")

Reboot == offered' = FALSE /\ service' = "idle" /\ report' = "none"

ServiceNext == Offer \/ Accept \/ Begin \/ Install \/ Report \/ End \/ Race \/ Reboot

ServiceSpec == ServiceInit /\ [][ServiceNext]_<<offered, service, report>>
=============================================================================
