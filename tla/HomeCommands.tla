---------------------------- MODULE HomeCommands ----------------------------
(***************************************************************************)
(* The command lines: a process runs the owner's commands on local state   *)
(* (LocalState), or one control call (TargetedCall), or one analysis       *)
(* (AnalysisRuntime), the last two against a home that changes while they  *)
(* read it. Which of them it is, `awake', is settled when it starts.       *)
(*                                                                         *)
(* What a call or an analysis reads of the local state is modelled in      *)
(* ControlRuntime and LocalState, so the owner is at rest meanwhile.       *)
(***************************************************************************)
EXTENDS LocalState, TargetedCall, AnalysisRuntime

VARIABLE awake

commandVars == <<localVars, homeVars, callVars, callHistory,
                 analysisVars, analysisHistory, awake>>

CommandTypeOK ==
  /\ LocalTypeOK
  /\ HomeTypeOK
  /\ CallTypeOK
  /\ AnalysisTypeOK
  /\ awake \in {"owner", "call", "analysis"}

-----------------------------------------------------------------------------
OwnerStep ==
  /\ awake = "owner"
  /\ LocalNext
  /\ UNCHANGED <<homeVars, callVars, callHistory,
                 analysisVars, analysisHistory, awake>>

CallMoves ==
  /\ awake = "call"
  /\ CallStep
  /\ CallWitness
  /\ UNCHANGED <<localVars, analysisVars, analysisHistory, awake>>

AnalysisMoves ==
  /\ awake = "analysis"
  /\ AnalysisStep
  /\ AnalysisWitness
  /\ UNCHANGED <<localVars, callVars, callHistory, awake>>

\* The home changes while it is read. A change of what is not being read is
\* seen by nobody: it is one of the states in which the next reading starts.
HomeMoves ==
  /\ \/ /\ Reading \/ stage = "discover"
        /\ RegistryChange
     \/ /\ step \in {"preflight", "observe"} \/ stage = "read"
        /\ ChangeState
     \/ /\ step = "preflight"
        /\ Regroup
     \/ /\ Begun \/ Working
        /\ FallSilent
  /\ UNCHANGED <<localVars, callVars, analysisVars, asked, redirected, raw, awake>>
  /\ CallWitness
  /\ AnalysisWitness

CommandNext == OwnerStep \/ CallMoves \/ AnalysisMoves \/ HomeMoves

CommandStart ==
  /\ LocalInit
  /\ CallStart
  /\ AnalysisStart
  /\ awake \in {"owner", "call", "analysis"}
  /\ awake # "call" => step = "rest"
  /\ awake # "analysis" => stage = "rest"

\* A process is scheduled, and each of its requests returns: _bounded_read and
\* the timeouts of live.py end the wait for an answer that does not come.
CommandFairness == WF_commandVars(CallMoves \/ AnalysisMoves)

\* One command line, in any home.
CommandSpec == CommandStart /\ [][CommandNext]_commandVars /\ CommandFairness

-----------------------------------------------------------------------------
\* Every call and every analysis ends, though the home may fall silent at any
\* instant, in the middle of any sequence of reads.
CommandEnds == <>(~Begun /\ ~Working)
=============================================================================
