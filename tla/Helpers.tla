-------------------------------- MODULE Helpers --------------------------------
(***************************************************************************)
(* The helpers without an object behind them, as a thread calls them: one  *)
(* call after the other, of a checksum, a conversion of a number, a url or *)
(* the keys of two texts.                                                  *)
(***************************************************************************)
EXTENDS Fletcher32, IntHex, ServiceAddress, TextKeys

helperVars == <<fletcherVars, conversionVars, addressVars, keyVars>>

HashIdle       == phase = "idle" /\ UNCHANGED fletcherVars
ConversionIdle == conv = "idle" /\ UNCHANGED conversionVars
AddressIdle    == url = <<>> /\ UNCHANGED addressVars
KeysIdle       == keys = <<>> /\ UNCHANGED keyVars

HelpersInit == FletcherInit /\ IntHexInit /\ AddressInit /\ KeysInit

HelpersNext ==
  \/ ConversionIdle /\ AddressIdle /\ KeysIdle /\ FletcherNext
  \/ HashIdle /\ AddressIdle /\ KeysIdle /\ IntHexNext
  \/ HashIdle /\ ConversionIdle /\ KeysIdle /\ AddressNext
  \/ HashIdle /\ ConversionIdle /\ AddressIdle /\ KeysNext

HelpersSpec == HelpersInit /\ [][HelpersNext]_helperVars
================================================================================
