-------------------------- MODULE MCDeviceCollect ---------------------------
(***************************************************************************)
(* The device starts with tags to poll, if it is configured at all; the    *)
(* first change of it takes them away, the second gives it tags Subscribe  *)
(* refuses, and the third tags to poll again.  A change of another device  *)
(* skips one of the four.                                                  *)
(***************************************************************************)
EXTENDS DeviceCollect

MCTagsOf == <<"polled", "none", "refused", "polled">>
=============================================================================
