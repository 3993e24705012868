---------------------------- MODULE MCWalletSetup ----------------------------
EXTENDS WalletSetup, TLC

(* A native segwit key, a legacy one, and text that is no key.               *)
SomePaths == [k \in Keys |-> CASE k = "zpub" -> "m84" [] k = "xpub" -> "m44" [] OTHER -> None]
==============================================================================
