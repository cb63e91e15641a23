----------------------------- MODULE Lifecycle -----------------------------
(***************************************************************************)
(* The program from main() to its exit: output_init, upnp_device_init with *)
(* the media types, the virtual files and the set-up of libupnp, the start *)
(* of a service (Startup), the main loop, and the end by a signal.         *)
(* Requests reach the program (Startup), and files are read (WebServer),   *)
(* from the moment libupnp offers them until UpnpFinish.                   *)
(***************************************************************************)
EXTENDS Startup, WebServer, ConnectionManager

CONSTANTS Icons, Scpds,    \* names of the virtual files
          Sinks,           \* sets of types that the sink pads may have
          Filters,         \* values of --mime-filter
          MaxRetries       \* of UpnpInit2; 60 in the code

ASSUME LifecycleAssumption == /\ MaxRetries \in Nat
                              /\ Icons \cup Scpds = DOMAIN Content
                              /\ Filters \subseteq Seq({"", "+", "-"} \X Seq(STRING))

VARIABLES
  main,        \* where main() is
  filter,      \* --mime-filter
  types,       \* supported_types_list, then SinkProtocolInfo
  retriesLeft,
  setUp,       \* how many steps of SetUp have succeeded
  loopRuns,    \* is_running of main_loop_
  caught,      \* history: a signal came while the loop ran
  hung         \* main waits in the signal handler for a lock of its own

lifeVars == <<main, filter, types, retriesLeft, setUp, loopRuns, caught, hung>>
allVars == <<vars, webVars, lifeVars>>

(* main has returned.  (A signal before its handlers are installed, and     *)
(* --dump-devicedesc once the services are there, stop the process on the  *)
(* spot; nothing follows, so neither has a step.)                          *)
Ended == main = "exited"

(* initialize_device: the calls of libupnp in their order *)
SetUp == <<"Init", "EnableWebserver", "SetCallbacks", "AddVirtualDir",
           "RegisterRootDevice", "SendAdvertisement">>

Succeeded(call) == \E i \in 1 .. setUp : SetUp[i] = call

(* libupnp hands requests over, for the device and for its files. *)
Discoverable == ~Ended /\ main # "finish" /\ Succeeded("RegisterRootDevice")
Serving == ~Ended /\ main # "finish" /\ Succeeded("AddVirtualDir")

ServiceRests == UNCHANGED vars
FilesRest == UNCHANGED webVars

-----------------------------------------------------------------------------
(* The main thread. *)

(* output_init and output_gstreamer_init, which asks for the sink pads *)
OutputInit ==
  /\ main = "output"
  /\ \/ main' = "port" /\ \E sinks \in Sinks : types' = ScanMimeList(sinks)
     \/ main' = "exited" /\ UNCHANGED types
  /\ UNCHANGED <<filter, retriesLeft, setUp, loopRuns, caught, hung>> /\ ServiceRests /\ FilesRest

(* The port may be out of range. *)
CheckPort ==
  /\ main = "port"
  /\ main' \in {"types", "exited"}
  /\ UNCHANGED <<filter, types, retriesLeft, setUp, loopRuns, caught, hung>> /\ ServiceRests /\ FilesRest

(* upnp_renderer_init: connmgr_init *)
InitTypes ==
  /\ main = "types" /\ main' = "files"
  /\ types' = SinkProtocolInfo(types, filter)
  /\ UNCHANGED <<filter, retriesLeft, setUp, loopRuns, caught, hung>> /\ ServiceRests /\ FilesRest

(* Faulty: the service descriptions are forgotten. *)
RegisterIconsOnly ==
  /\ main = "files" /\ main' = "library"
  /\ \E readable \in SUBSET Icons : Register(readable)
  /\ UNCHANGED <<filter, types, retriesLeft, setUp, loopRuns, caught, hung>> /\ ServiceRests

(* An icon that cannot be read is left out; the descriptions are made.     *)
RegisterFiles ==
  /\ main = "files" /\ main' = "library"
  /\ \E readable \in SUBSET Icons : Register(readable \cup Scpds)
  /\ UNCHANGED <<filter, types, retriesLeft, setUp, loopRuns, caught, hung>> /\ ServiceRests

(* After UpnpInit2 the number of retries left has no use. *)
StepSucceeds ==
  /\ main = "library"
  /\ setUp' = setUp + 1 /\ retriesLeft' = 0
  /\ main' = IF setUp' = Len(SetUp) THEN "services" ELSE main
  /\ UNCHANGED <<filter, types, loopRuns, caught, hung>> /\ ServiceRests /\ FilesRest

(* UpnpInit2 has failed: once more, a second later *)
Retry ==
  /\ main = "library" /\ SetUp[setUp + 1] = "Init" /\ retriesLeft > 0
  /\ retriesLeft' = retriesLeft - 1
  /\ UNCHANGED <<main, filter, types, setUp, loopRuns, caught, hung>> /\ ServiceRests /\ FilesRest

(* Faulty: the program ends without UpnpFinish. *)
StepFailsAndExits ==
  /\ main = "library" /\ (SetUp[setUp + 1] = "Init" => retriesLeft = 0)
  /\ main' = "exited"
  /\ UNCHANGED <<filter, types, retriesLeft, setUp, loopRuns, caught, hung>> /\ ServiceRests /\ FilesRest

StepFails ==
  /\ main = "library" /\ (SetUp[setUp + 1] = "Init" => retriesLeft = 0)
  /\ main' = "finish"
  /\ UNCHANGED <<filter, types, retriesLeft, setUp, loopRuns, caught, hung>> /\ ServiceRests /\ FilesRest

(* upnp_transport_init or upnp_control_init: the service of Startup *)
StartService ==
  /\ main = "services" /\ MainSteps
  /\ UNCHANGED lifeVars /\ FilesRest

(* output_loop: the handlers of SIGINT and SIGTERM *)
InstallHandlers ==
  /\ main = "services" /\ step = "done" /\ ~aborted
  /\ main' = "handlers"
  /\ UNCHANGED <<filter, types, retriesLeft, setUp, loopRuns, caught, hung>>
  /\ ServiceRests /\ FilesRest

(* g_main_loop_run *)
RunLoop ==
  /\ main = "handlers" /\ ~aborted
  /\ main' = "loop" /\ loopRuns' = TRUE
  /\ UNCHANGED <<filter, types, retriesLeft, setUp, caught, hung>> /\ ServiceRests /\ FilesRest

LeaveLoop ==
  /\ main = "loop" /\ ~loopRuns /\ ~hung /\ ~aborted
  /\ main' = "finish"
  /\ UNCHANGED <<filter, types, retriesLeft, setUp, loopRuns, caught, hung>>
  /\ ServiceRests /\ FilesRest

(* UpnpFinish waits for the threads of libupnp, then main returns. *)
FinishLibrary ==
  /\ main = "finish" /\ inAction = {} /\ ~IsOpen /\ ~aborted
  /\ main' = "exited" /\ setUp' = 0
  /\ UNCHANGED <<filter, types, retriesLeft, loopRuns, caught, hung>> /\ ServiceRests /\ FilesRest

MainProgram ==
  \/ OutputInit \/ CheckPort \/ InitTypes \/ RegisterFiles
  \/ StepSucceeds \/ StepFails \/ Retry
  \/ StartService \/ InstallHandlers \/ RunLoop \/ LeaveLoop
  \/ FinishLibrary

(* Faulty: the handler leaves the loop running. *)
SighandlerIgnores ==
  /\ main \in {"handlers", "loop"} /\ ~caught /\ ~aborted
  /\ caught' = (main = "loop")
  /\ UNCHANGED <<main, filter, types, retriesLeft, setUp, loopRuns, hung>>
  /\ ServiceRests /\ FilesRest

(* exit_loop_sighandler: g_main_loop_quit; g_main_loop_run forgets it when *)
(* it comes later.  "This is not safe to do": g_main_loop_quit locks the   *)
(* context, and when the signal interrupts the main thread while the loop  *)
(* holds that lock, it waits for itself.                                   *)
ExitLoopSighandler ==
  /\ main \in {"handlers", "loop"} /\ ~caught /\ ~aborted
  /\ \/ loopRuns' = FALSE /\ UNCHANGED hung
     \/ main = "loop" /\ hung' = TRUE /\ UNCHANGED loopRuns
  /\ caught' = (main = "loop")
  /\ UNCHANGED <<main, filter, types, retriesLeft, setUp>> /\ ServiceRests /\ FilesRest

(* The threads of libupnp. *)
RequestBegins == \E t \in Requests : Discoverable /\ BeginAction(t)

RequestGoesOn == ~Ended /\ \E t \in Requests : ActionGoesOn(t)

FileRequest ==
  /\ ~Ended /\ ~aborted
  /\ WebSteps
  /\ ~Serving => ~IsOpen'
  /\ ServiceRests /\ UNCHANGED lifeVars

-----------------------------------------------------------------------------
LifecycleInit ==
  /\ Init /\ WebInit
  /\ main = "output" /\ filter \in Filters /\ types = {}
  /\ retriesLeft = MaxRetries /\ setUp = 0
  /\ loopRuns = FALSE /\ caught = FALSE /\ hung = FALSE

LifecycleNext ==
  \/ MainProgram
  \/ ExitLoopSighandler
  \/ (RequestBegins \/ RequestGoesOn) /\ UNCHANGED lifeVars /\ FilesRest
  \/ FileRequest

(* The main thread goes on.  Nothing is assumed of requests. *)
LifecycleFairness == WF_allVars(MainProgram)

LifecycleSpec == LifecycleInit /\ [][LifecycleNext]_allVars /\ LifecycleFairness

-----------------------------------------------------------------------------
(* Properties. *)

(* From the first moment a control point can know the device, its service  *)
(* descriptions are served, action requests have a handler, and the list   *)
(* of media types is settled and not empty: a control point that finds no  *)
(* description, or no type that it can send, gives the device up.  An icon *)
(* that could not be read is described and not served.                     *)
DescribedIsServed ==
  Discoverable => /\ Scpds \subseteq virtualFiles
                  /\ Succeeded("SetCallbacks") /\ Succeeded("AddVirtualDir")
                  /\ types # {}

(* main returns with libupnp finished and no request under way, whichever  *)
(* step of the start failed.                                               *)
ReturnsFinished == Ended => setUp = 0 /\ inAction = {} /\ ~IsOpen

(* Every request that has begun comes to its end, and so does the reading  *)
(* of a file.  The program does not give that: a Stop may keep             *)
(* transport_mutex for good, see FinishedTrackEnds in GstRenderer.         *)
RequestsEnd == /\ \A t \in Requests : t \in inAction ~> t \notin inAction
               /\ IsOpen ~> ~IsOpen

(* If requests end, a signal that comes while the loop runs, and does not  *)
(* hang in its handler, ends the program.                                  *)
SignalEnds == RequestsEnd => (caught ~> Ended \/ aborted \/ hung)

(* The start comes to its end, whatever requests do: the loop runs, or a   *)
(* step has failed and the program is on its way out.                      *)
StartCompletes == <>(main \in {"loop", "finish", "exited"} \/ aborted)
=============================================================================
