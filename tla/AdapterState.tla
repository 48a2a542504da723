--------------------------- MODULE AdapterState ---------------------------
(***************************************************************************)
(* The state machine of the camera adapter: its states, the commands that  *)
(* may change them and the table BaseCameraAdapter::setState consults.     *)
(* It describes the build of BoardConfigCommon, which defines neither      *)
(* OMAP_ENHANCEMENT_CPCAM nor OMAP_ENHANCEMENT_VTC, so the reprocessing    *)
(* states and commands are absent.                                         *)
(***************************************************************************)

\* The adapter's states (the suffix _STATE is dropped).
States == {"INIT", "LOADED_PREVIEW", "PREVIEW", "LOADED_CAPTURE", "CAPTURE",
           "BRACKETING", "AF", "ZOOM", "VIDEO", "VIDEO_AF", "VIDEO_ZOOM",
           "VIDEO_LOADED_CAPTURE", "VIDEO_CAPTURE", "AF_ZOOM",
           "BRACKETING_ZOOM"}

\* A state is a set of activity bits; these are the masks the code tests.
PREVIEW_ACTIVE == States \ {"INIT", "LOADED_PREVIEW"}
CAPTURE_ACTIVE == {"CAPTURE", "BRACKETING", "VIDEO_CAPTURE"}
AF_ACTIVE      == {"AF", "VIDEO_AF", "AF_ZOOM"}
ZOOM_ACTIVE    == {"ZOOM", "VIDEO_ZOOM", "AF_ZOOM", "BRACKETING_ZOOM"}
VIDEO_ACTIVE   == {"VIDEO", "VIDEO_AF", "VIDEO_ZOOM", "VIDEO_LOADED_CAPTURE",
                   "VIDEO_CAPTURE"}

\* The states that ask a query to leave the state alone.
Stay(s, cs) == {<<s, c, s>> : c \in cs}

\* The rows of setState's switch: <<state, command, next state>>.  A command
\* without a row in a state is refused there.
InitRows ==
  Stay("INIT", {"QUERY_RES", "QUERY_DATA"})
  \cup { <<"INIT", "USE_PREVIEW", "LOADED_PREVIEW">> }
  \cup Stay("LOADED_PREVIEW", {"QUERY_IMG", "QUERY_DATA", "USE_DATA"})
  \cup { <<"LOADED_PREVIEW", "START_PREVIEW", "PREVIEW">>,
         <<"LOADED_PREVIEW", "STOP_PREVIEW", "INIT">> }

PreviewRows ==
  Stay("PREVIEW", {"CANCEL_AF", "QUERY_IMG", "STOP_ZOOM"})
  \cup { <<"PREVIEW", "STOP_PREVIEW", "INIT">>,
         <<"PREVIEW", "AF", "AF">>,
         <<"PREVIEW", "START_ZOOM", "ZOOM">>,
         <<"PREVIEW", "USE_IMG", "LOADED_CAPTURE">>,
         <<"PREVIEW", "START_VIDEO", "VIDEO">> }

CaptureRows ==
  { <<"LOADED_CAPTURE", "START_IMG", "CAPTURE">>,
    <<"LOADED_CAPTURE", "START_BRACKET", "BRACKETING">> }
  \cup Stay("CAPTURE", {"QUERY_IMG", "START_IMG"})
  \cup { <<"CAPTURE", "STOP_IMG", "PREVIEW">>,
         <<"CAPTURE", "STOP_BRACKET", "PREVIEW">>,
         <<"BRACKETING", "STOP_IMG", "PREVIEW">>,
         <<"BRACKETING", "STOP_BRACKET", "PREVIEW">>,
         <<"BRACKETING", "START_IMG", "CAPTURE">> }

FocusRows ==
  { <<"AF", "CANCEL_AF", "PREVIEW">>,
    <<"AF", "START_ZOOM", "AF_ZOOM">>,
    <<"AF", "START_VIDEO", "VIDEO">>,
    <<"AF", "START_IMG", "CAPTURE">> }

ZoomRows ==
  Stay("ZOOM", {"CANCEL_AF"})
  \cup { <<"ZOOM", "STOP_ZOOM", "PREVIEW">>,
         <<"ZOOM", "AF", "AF_ZOOM">>,
         <<"ZOOM", "START_VIDEO", "VIDEO_ZOOM">> }

VideoRows ==
  Stay("VIDEO", {"QUERY_IMG"})
  \cup { <<"VIDEO", "STOP_VIDEO", "PREVIEW">>,
         <<"VIDEO", "AF", "VIDEO_AF">>,
         <<"VIDEO", "START_ZOOM", "VIDEO_ZOOM">>,
         <<"VIDEO", "USE_IMG", "VIDEO_LOADED_CAPTURE">> }
  \cup Stay("VIDEO_AF", {"QUERY_IMG"})
  \cup { <<"VIDEO_AF", "CANCEL_AF", "VIDEO">>,
         <<"VIDEO_AF", "USE_IMG", "VIDEO_LOADED_CAPTURE">>,
         <<"VIDEO_LOADED_CAPTURE", "START_IMG", "VIDEO_CAPTURE">>,
         <<"VIDEO_CAPTURE", "STOP_IMG", "VIDEO">> }

MixedZoomRows ==
  { <<"AF_ZOOM", "STOP_ZOOM", "AF">>,
    <<"AF_ZOOM", "CANCEL_AF", "ZOOM">>,
    <<"VIDEO_ZOOM", "STOP_ZOOM", "VIDEO">>,
    <<"VIDEO_ZOOM", "STOP_VIDEO", "ZOOM">>,
    <<"BRACKETING_ZOOM", "STOP_ZOOM", "BRACKETING">> }

Table == InitRows \cup PreviewRows \cup CaptureRows \cup FocusRows
         \cup ZoomRows \cup VideoRows \cup MixedZoomRows

\* setState leaves the next state alone for one accepted command: preparing
\* the buffers of a raw capture.
Commands == {row[2] : row \in Table} \cup {"USE_VIDEO_CAPTURE"}

\* rollbackToPreviousState: the command that undoes a state.  The states
\* without one make the rollback give up.
RollbackCommand ==
  [ PREVIEW       |-> "STOP_PREVIEW", CAPTURE         |-> "STOP_IMG",
    BRACKETING    |-> "STOP_BRACKET", AF              |-> "CANCEL_AF",
    ZOOM          |-> "STOP_ZOOM",    VIDEO           |-> "STOP_VIDEO",
    VIDEO_AF      |-> "CANCEL_AF",    VIDEO_CAPTURE   |-> "STOP_IMG",
    AF_ZOOM       |-> "STOP_ZOOM",    VIDEO_ZOOM      |-> "STOP_ZOOM",
    BRACKETING_ZOOM |-> "STOP_ZOOM" ]
=============================================================================
