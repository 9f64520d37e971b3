----------------------------- MODULE MCLocalnet -----------------------------
(***************************************************************************)
(* Five validators, as the scripts name nodes 1 to 5 and the RPC node, and *)
(* every test script on a network booted in one of the three ways.         *)
(***************************************************************************)
EXTENDS Localnet

MCNodeIds == 1 .. 5

MCScripts ==
    {FreshBoot(AutoUpscale), SavingBoot(CachedMessages),
     RestoredBoot(EarlyEpoch), RestoredBoot(Complex), RestoredBoot(Epoch22), RestoredBoot(Phoenix),
     AvailabilityHandling, AutoRestake, WatchdogBoot}
=============================================================================
