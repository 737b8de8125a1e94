------------------------------ MODULE Library ------------------------------
(***************************************************************************)
(* libnv-darwin is built twice, for the driver extension and for the       *)
(* kernel extension (Support/libnv-darwin/nv_darwin.h:14-18): a behaviour  *)
(* of a module that models both is one of either library.                  *)
(***************************************************************************)
VARIABLE library    \* the one that RM is linked with

Libraries == {"dext", "kext"}
=============================================================================
