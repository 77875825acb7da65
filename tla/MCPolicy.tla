------------------------------ MODULE MCPolicy ------------------------------
(***************************************************************************)
(* Policy with two sets of capabilities: 1 is a plain charger's, 2 is EPR  *)
(* capable with a PPS APDO, and known by its fingerprint.                  *)
(***************************************************************************)
EXTENDS Policy

MCOffers  == {1, 2}
MCPlain   == {1}
MCEpr     == {2}
MCTraffic == {Msg("softreset"), Message("caps", 2, 0),
              Num("vdmreq", DiscoverSvids)}
MCOffered == {Message("caps", 1, 0), Message("caps", 2, 0)}
MCOwn     == {Msg("softreset"), Msg("attention"), Num("vdmreq", EnterMode)}
=============================================================================
