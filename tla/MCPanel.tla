------------------------------- MODULE MCPanel -------------------------------
(* Instances of SignaturePanel for TLC. *)
EXTENDS SignaturePanel

CONSTANTS s1, h1, h2

Settings(enabled, airgap, sources, known) ==
    [enabled |-> enabled, airgap |-> airgap, sources |-> sources, registered |-> known]

(* Settings of a configuration file: a feed, the import of an air-gapped   *)
(* host, updates switched off.  A reload in the middle of a download can   *)
(* take the feed away.                                                     *)
MCConfigs ==
    {Settings(TRUE, FALSE, <<s1>>, {s1}), Settings(TRUE, TRUE, <<s1>>, {s1}),
     Settings(FALSE, FALSE, <<>>, {})}

(* An import that brings the file of the feed. *)
MCBundles == {<<s1>>}
=============================================================================
