------------------------------ MODULE EtaMemo ------------------------------
(***************************************************************************)
(* The memos behind statmod_eta() (R/objective.R), through which the       *)
(* objective, the score and the information of every fit read the          *)
(* predictors, and behind statmod_design_at() (R/refresh.R).  Each holds   *)
(* one entry.  What it must be dropped for is written by hand wherever the *)
(* state of the design moves.                                              *)
(*                                                                         *)
(* The predictors are a function of the coefficients asked for and of the  *)
(* state of the design: `terms' (st$terms), `st_working' (st$working) and  *)
(* `zeta' (sst$zeta).  A value read is the state it was computed from.     *)
(* Fits read and move the state in many orders; here the order is free,    *)
(* but that a working fit leaves only by its own assignments, and a        *)
(* proposal of the bootstrap restarting keeps to its own reads and writes. *)
(***************************************************************************)
EXTENDS Integers

CONSTANTS Coef, Terms, Zetas,
          Kinds          \* which terms the models have: see AllKinds

(* Whether a term recomputes its own block, whether one is structural.     *)
AllKinds == [refreshable: BOOLEAN, structural: BOOLEAN]

ASSUME MemoAssumption == Kinds \subseteq AllKinds

VARIABLES kind,          \* chosen once
          terms, st_working, sst_zeta,
          st,            \* the memo of statmod_design_at(): at most one entry
          sst,           \* the memo of a structural model in statmod_eta()
          mm,            \* the memo of a model with neither, in statmod_eta()
          proposal,      \* of propose(): at most one, the fit it is made from
       last           \* the last read: what the state gives, what it was,
                      \* and the proposal it was made in, if any

design == <<terms, st_working, sst_zeta>>
memoVars == <<kind, design, st, sst, mm, proposal, last>>

Refreshable == kind.refreshable
WithStructural == kind.structural
Plain == ~Refreshable /\ ~WithStructural

Blocks == Coef \X Terms \X BOOLEAN
Predictors == Blocks \X Zetas

(* par is best$par, terms what st$terms was; netted, whether the working   *)
(* response of the term at hand has been read.                             *)
Proposals == [par: Coef, terms: Terms, netted: BOOLEAN]

MemoTypeOK ==
  /\ kind \in Kinds
  /\ terms \in Terms /\ st_working \in BOOLEAN /\ sst_zeta \in Zetas
  /\ st \subseteq [key: Coef \X BOOLEAN, value: Blocks]
  /\ sst \subseteq [key: Coef \X Zetas, value: Predictors]
  /\ mm \subseteq [key: Coef, value: Predictors]
  /\ proposal \subseteq Proposals
  /\ last \in [now: Predictors, got: Predictors, within: SUBSET Proposals]

MemoInit ==
  /\ kind \in Kinds
  /\ terms \in Terms /\ st_working = FALSE /\ sst_zeta \in Zetas
  /\ st = {} /\ sst = {} /\ mm = {}
  /\ proposal = {}
  /\ \E c \in Coef : LET v == <<<<c, terms, st_working>>, sst_zeta>>
                     IN last = [now |-> v, got |-> v, within |-> {}]

Now(c) == <<<<c, terms, st_working>>, sst_zeta>>

(* net_y() reads at the coefficients of the fit the proposal is made from. *)
Asked == IF proposal = {} THEN Coef ELSE {q.par : q \in proposal}

Read(c, v) ==
  /\ last' = [now |-> Now(c), got |-> v, within |-> proposal]
  /\ proposal' = {[q EXCEPT !.netted = TRUE] : q \in proposal}

(* The key of a structural model: the coefficients and sst$zeta.           *)
Hit(c, e) == e.key = <<c, sst_zeta>>

AskHit ==
  /\ \E c \in Asked :
       \/ WithStructural /\ \E e \in sst : Hit(c, e) /\ Read(c, e.value)
       \/ /\ Plain
          /\ \E e \in mm : e.key = c /\ Read(c, e.value)
  /\ UNCHANGED <<kind, design, st, sst, mm>>

(* Mutant: the key is the coefficients alone.                              *)
DesignAt_coefOnly(c, b, m) ==
  \/ Refreshable /\ m = st /\ \E e \in st : e.key = <<c>> /\ b = e.value
  \/ /\ Refreshable /\ \A e \in st : e.key # <<c>>
     /\ b = <<c, terms, st_working>>
     /\ m = {[key |-> <<c>>, value |-> b]}
  \/ ~Refreshable /\ b = <<c, terms, st_working>> /\ m = st

(* statmod_design_at(): b is the design it returns and m the memo it       *)
(* leaves, keyed by the coefficients and st$working.                       *)
DesignAt(c, b, m) ==
  \/ Refreshable /\ m = st /\ \E e \in st : e.key = <<c, st_working>> /\ b = e.value
  \/ /\ Refreshable /\ \A e \in st : e.key # <<c, st_working>>
     /\ b = <<c, terms, st_working>>
     /\ m = {[key |-> <<c, st_working>>, value |-> b]}
  \/ ~Refreshable /\ b = <<c, terms, st_working>> /\ m = st

AskMiss ==
  /\ \E c \in Asked :
       /\ WithStructural => \A e \in sst : ~Hit(c, e)
       /\ Plain => \A e \in mm : e.key # c
       /\ \E b \in Blocks :
            /\ DesignAt(c, b, st')
            /\ Read(c, <<b, sst_zeta>>)
            /\ sst' = IF WithStructural
                      THEN {[key |-> <<c, sst_zeta>>, value |-> <<b, sst_zeta>>]}
                      ELSE sst
            /\ mm' = IF Plain
                     THEN {[key |-> c, value |-> <<b, sst_zeta>>]}
                     ELSE mm
  /\ UNCHANGED <<kind, design>>

-----------------------------------------------------------------------------
NoProposal == proposal = {}

(* fit_working() around each working fit.                                  *)
EnterWorking ==
  /\ NoProposal
  /\ Refreshable /\ ~st_working
  /\ st_working' = TRUE /\ st' = {}
  /\ UNCHANGED <<kind, terms, sst_zeta, sst, mm, proposal, last>>

LeaveWorking ==
  /\ st_working
  /\ st_working' = FALSE /\ st' = {}
  /\ UNCHANGED <<kind, terms, sst_zeta, sst, mm, proposal, last>>

(* statmod_commit_refresh(), and the positions the settle writes in, none  *)
(* of which reads between its first write and the drop: st$key is dropped, *)
(* sst$key is not.                                                         *)
MoveTerms ==
  /\ NoProposal
  /\ Refreshable /\ ~st_working
  /\ terms' \in Terms /\ st' = {}
  /\ UNCHANGED <<kind, st_working, sst_zeta, sst, mm, proposal, last>>

(* restore() of the bootstrap restarting drops both.                       *)
PutBack ==
  /\ Refreshable /\ ~st_working
  /\ terms' \in Terms /\ st' = {}
  /\ IF WithStructural THEN sst_zeta' \in Zetas /\ sst' = {}
     ELSE UNCHANGED <<sst_zeta, sst>>
  /\ UNCHANGED <<kind, st_working, mm, last>>

(* After a refit, after a proposal that raised, and at the end.            *)
Restore == PutBack /\ proposal' = {}

(* restore() is also what a proposal starts from.                          *)
BeginProposal ==
  /\ PutBack
  /\ \E c \in Coef :
       proposal' = {[par |-> c, terms |-> terms', netted |-> FALSE]}

(* Mutant: the memo of the design is dropped at each write, as the other   *)
(* writers of the terms drop it.                                           *)
ProposeTerm_drop ==
  /\ \E q \in proposal : q.netted
  /\ terms' \in Terms /\ st' = {}
  /\ proposal' = {[q EXCEPT !.netted = FALSE] : q \in proposal}
  /\ UNCHANGED <<kind, st_working, sst_zeta, sst, mm, last>>

(* propose() writes each term whose profile improves, and goes on to the   *)
(* next with the memo as it is.                                            *)
ProposeTerm ==
  /\ \E q \in proposal : q.netted
  /\ terms' \in Terms
  /\ proposal' = {[q EXCEPT !.netted = FALSE] : q \in proposal}
  /\ UNCHANGED <<kind, st_working, sst_zeta, st, sst, mm, last>>

(* Mutant: the memo outlives the proposal.                                 *)
EndProposal_keepMemo ==
  /\ proposal # {} /\ proposal' = {}
  /\ UNCHANGED <<kind, design, st, sst, mm, last>>

(* It drops st$key once, when every term has been visited.                 *)
EndProposal ==
  /\ proposal # {} /\ proposal' = {}
  /\ st' = {}
  /\ UNCHANGED <<kind, design, sst, mm, last>>

(* The trial points of a structural fit.                                   *)
SetZeta ==
  /\ NoProposal
  /\ WithStructural
  /\ sst_zeta' \in Zetas /\ sst' = {}
  /\ UNCHANGED <<kind, terms, st_working, st, mm, proposal, last>>

(* The multistarts and the edge restarts write the parameters and leave    *)
(* the memo, whose key holds them.                                         *)
WriteZeta ==
  /\ NoProposal
  /\ WithStructural
  /\ sst_zeta' \in Zetas
  /\ UNCHANGED <<kind, terms, st_working, st, sst, mm, proposal, last>>

MemoNext == \/ AskHit \/ AskMiss \/ EnterWorking \/ LeaveWorking \/ MoveTerms
            \/ Restore \/ BeginProposal \/ ProposeTerm \/ EndProposal
            \/ SetZeta \/ WriteZeta

MemoSpec == MemoInit /\ [][MemoNext]_memoVars

-----------------------------------------------------------------------------
(* Outside a proposal every read is of the design as it is: no memo        *)
(* outlives what it was computed from, that of a proposal whose terms have *)
(* moved included.  It is asked where no kind has both refreshable terms   *)
(* and a structural term; see CommittedIsRead for one that has.            *)
ReadIsFresh == last.within = {} => last.got = last.now

(* In a proposal every term is screened "net of the other contributions to *)
(* that equation" (R/boot_restart.R:94) as one fit has them: the predictors*)
(* are those of the fit the proposal is made from, though the terms before *)
(* it have moved and the coefficients asked for have not.  Only the memo   *)
(* holds them by then, so the drop must wait for the last term.            *)
ProposalReadsOneFit ==
  \A q \in last.within : last.got = <<<<q.par, q.terms, FALSE>>, last.now[2]>>

(* "the other equations, once, at the committed blocks and on the true     *)
(* objective" (R/statmod.R:2668): what is read outside a working fit and   *)
(* a proposal is read at the terms committed and not on the working model. *)
CommittedIsRead ==
  (last.within = {} /\ ~last.now[1][3]) => last.got[1] = last.now[1]
=============================================================================
