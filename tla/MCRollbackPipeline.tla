------------------------ MODULE MCRollbackPipeline ------------------------
(***************************************************************************)
(* Instances of RollbackPipeline: short histories with one or two faulty   *)
(* configurations on top of a sound one.                                    *)
(***************************************************************************)
EXTENDS RollbackPipeline

CONSTANTS good, older, bad, nil

Was(config) == [config |-> config, status |-> "superseded"]
Is(config) == [config |-> config, status |-> "deployed"]
DidFail(config) == [config |-> config, status |-> "failed"]

\* One faulty configuration, released once, again, or after a failed release;
\* the sound one may be the chart's own values.
OneFault == {<<Was(good), Is(bad)>>,
             <<Was(older), Was(good), Is(bad)>>,
             <<Was(good), Was(bad), Is(bad)>>,
             <<Was(good), DidFail(bad), Is(bad)>>,
             <<Was(good), DidFail(older), Is(bad)>>,
             <<Was(nil), Is(bad)>>}
FaultAfterFailure == {<<Was(good), DidFail(older), Is(bad)>>}
=============================================================================
