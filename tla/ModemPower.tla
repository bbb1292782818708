------------------------------- MODULE ModemPower -------------------------------
(***************************************************************************)
(* The owner of the modem power domain (modem/md-pm-integration): it       *)
(* adopts the modem the boot loader left running, takes it OFF once and,   *)
(* by profile, stops before a restart (restart.h) or gates its clocks      *)
(* (post-off.h) and powers it on for one consumer (real-boot.h).           *)
(* Every register transaction runs under the takeover lock; a failure      *)
(* stops it where it is and no step is undone.                             *)
(***************************************************************************)
EXTENDS Naturals, Sequences

CONSTANTS
    Profiles,  \* what the device tree and the configuration select
    Errnos     \* the errors a check, a register or a provider may return

ASSUME ProfilesAssumption == Profiles \subseteq {"adopt", "first_off", "restart", "real_boot"}
ASSUME ErrnosAssumption == "ok" \notin Errnos

VARIABLES
    profile,
    md,        \* the hardware: protected buses, "pwr", "ack", "iso", "gated"
    owner,     \* struct mt6878_md_adoption
    retained,  \* mt6878_md_first_off_owner is set
    tail,      \* step of mt6878_md_real_boot_tail
    run,       \* the register program that runs, and its next step
    supplier,  \* scpsys probe: "absent", "publishing", "published"
    consumer   \* the CCCI device: "unbound", "attached", "powered", "bound"

ownerVars == <<md, owner, retained, tail, run, supplier>>
powerVars == <<profile, ownerVars, consumer>>

OK == "ok"
Buses == {"ifr9", "ifr11", "nemi"}
BootOn == {"pwr", "ack"}
Off == Buses \cup {"iso"}

NoOwner == [state |-> "none", error |-> OK, held |-> FALSE, attached |-> FALSE]
Observed == [NoOwner EXCEPT !.state = "observed_on"]
NoRun == [program |-> "none", step |-> 0]

PowerInit ==
    /\ profile \in Profiles
    /\ md = BootOn /\ owner = NoOwner /\ retained = FALSE
    /\ tail = "unused" /\ run = NoRun
    /\ supplier = "absent" /\ consumer = "unbound"

-----------------------------------------------------------------------------
(***************************************************************************)
(* A step of a register program.  A write takes effect, or fails with or   *)
(* without it (the poll that follows included); a read compares the        *)
(* hardware; a call leaves the domain's registers alone (device-tree and   *)
(* resource checks, regulators, the FLIGHT call, whose zero result does    *)
(* not prove a policy); the inhibit boundary refuses.                      *)
(***************************************************************************)
Step(kind, on, off) == [kind |-> kind, on |-> on, off |-> off]
Write(on, off) == Step("write", on, off)
Call == Step("call", {}, {})
Revalidate == Call
RestartResources == Call
TopAcquire == Call
FlightSubmit == Call
SetRails == Call
TopGate == Write({"gated"}, {})
InhibitBoundary == Step("refuse", {}, {})

Passes(s) ==
    /\ s.kind # "refuse"
    /\ s.kind = "read" => s.on \subseteq md /\ s.off \cap md = {}

After(s) == IF s.kind = "write" THEN (md \cup s.on) \ s.off ELSE md

\* mt6878_md_adopt_on and mt6878_md_first_off_readback.
AdoptOn == Step("read", BootOn, Off)
FirstOffReadback == Step("read", Off, BootOn)

\* Mutation: the domain loses power before the last bus is protected.
OffPowerEarly ==
    << Write({"ifr9"}, {}), Write({"ifr11"}, {}), Write({}, {"pwr"}), Write({}, {"ack"}),
       Write({"nemi"}, {}), Write({"iso"}, {}), FirstOffReadback >>

(***************************************************************************)
(* mt6878_md_first_off: protect the buses, power, acknowledge, isolate.    *)
(***************************************************************************)
FirstOffProgram ==
    << Write({"ifr9"}, {}), Write({"ifr11"}, {}), Write({"nemi"}, {}),
       Write({}, {"pwr"}), Write({}, {"ack"}), Write({"iso"}, {}), FirstOffReadback >>

(***************************************************************************)
(* mt6878_md_inhibited_restart: checks and no write, up to the boundary.   *)
(***************************************************************************)
RestartProgram == << Revalidate, FirstOffReadback, RestartResources, InhibitBoundary >>

(***************************************************************************)
(* mt6878_md_real_boot_post_off: map TOP, FLIGHT(1), gate TOP.             *)
(***************************************************************************)
PostOffProgram == << TopAcquire, FirstOffReadback, FlightSubmit, FirstOffReadback, TopGate >>

(***************************************************************************)
(* mt6878_md_real_boot_power_on: rails, TOP, FLIGHT(0), isolation, power,  *)
(* acknowledge, the buses in reverse order, readback.                      *)
(***************************************************************************)
PowerOnProgram ==
    << SetRails, Write({}, {"gated"}), FlightSubmit, Write({}, {"iso"}), Write({"pwr"}, {}),
       Write({"ack"}, {}), Write({}, {"nemi"}), Write({}, {"ifr11"}), Write({}, {"ifr9"}),
       AdoptOn >>

Programs ==
    [first_off |-> FirstOffProgram, restart |-> RestartProgram,
     post_off |-> PostOffProgram, power_on |-> PowerOnProgram]

Start(p) == [program |-> p, step |-> 1]

\* Mutation: a deferral of a provider is left for the next probe.
FaultButDeferral(o, e) ==
    IF o.error = OK /\ e # "EPROBE_DEFER" THEN [o EXCEPT !.error = e] ELSE o

\* mt6878_md_adopt_fault (and mt6878_md_restart_stop): the first error stays.
AdoptFault(o, e) == IF o.error = OK THEN [o EXCEPT !.error = e] ELSE o

-----------------------------------------------------------------------------
(***************************************************************************)
(* mt6878_md_adopt_init up to its end or to the first write.  A failed     *)
(* check frees the owner; a taken domain refuses every later probe.        *)
(***************************************************************************)
AdoptInit ==
    /\ supplier = "absent" /\ ~retained /\ run = NoRun
    /\ Passes(AdoptOn)
    /\ IF profile = "adopt"
       THEN /\ owner' = Observed /\ supplier' = "publishing"
            /\ UNCHANGED <<retained, run>>
       ELSE /\ owner' = [Observed EXCEPT !.state = "off_takeover", !.held = TRUE]
            /\ retained' = TRUE /\ run' = Start("first_off")
            /\ UNCHANGED supplier
    /\ UNCHANGED <<profile, md, tail, consumer>>

(***************************************************************************)
(* The end of a program.  post_off_owner and restart_begin hold at the end *)
(* of first_off; system_transition_mutex may be taken.                     *)
(***************************************************************************)
FirstOffEnds ==
    /\ run.program = "first_off"
    /\ LET off == [owner EXCEPT !.state = "off_complete"]
       IN  \/ /\ profile = "first_off"
              /\ owner' = off /\ supplier' = "publishing" /\ run' = NoRun
              /\ UNCHANGED tail
           \/ /\ profile = "restart"
              /\ owner' = off /\ run' = Start("restart")
              /\ UNCHANGED <<supplier, tail>>
           \/ /\ profile = "real_boot"
              /\ owner' = off /\ run' = Start("post_off") /\ tail' = "post_off"
              /\ UNCHANGED supplier
           \/ /\ profile = "real_boot"
              /\ owner' = AdoptFault(off, "EBUSY") /\ run' = NoRun
              /\ UNCHANGED <<supplier, tail>>
    /\ UNCHANGED consumer

PostOffEnds ==
    /\ run.program = "post_off"
    /\ tail' = "gated" /\ supplier' = "publishing" /\ run' = NoRun
    /\ UNCHANGED <<owner, consumer>>

PowerOnEnds ==
    /\ run.program = "power_on"
    /\ owner' = [owner EXCEPT !.state = "attached_on"]
    /\ tail' = "on" /\ run' = NoRun /\ consumer' = "powered"
    /\ UNCHANGED supplier

ProgramStep ==
    /\ run # NoRun
    /\ LET program == Programs[run.program]
           s == program[run.step]
       IN  /\ Passes(s)
           /\ md' = After(s)
           /\ IF run.step < Len(program)
              THEN /\ run' = [run EXCEPT !.step = @ + 1]
                   /\ UNCHANGED <<owner, tail, supplier, consumer>>
              ELSE FirstOffEnds \/ PostOffEnds \/ PowerOnEnds
    /\ UNCHANGED <<profile, retained>>

(***************************************************************************)
(* mt6878_md_adopt_detach, called by genpd when the device is removed from *)
(* the domain: for good, whatever the reason.                              *)
(***************************************************************************)
Detached(o) == AdoptFault([o EXCEPT !.state = "retired", !.attached = FALSE], "ESHUTDOWN")

\* Mutation: the errno of a register write is recorded and the program goes on.
ProgramGoesOn ==
    /\ run # NoRun
    /\ \E e \in Errnos :
         LET program == Programs[run.program]
             s == program[run.step]
         IN  /\ owner' = AdoptFault(owner, e)
             /\ md' \in {md, After(s)}
             /\ run' = IF run.step < Len(program) THEN [run EXCEPT !.step = @ + 1] ELSE NoRun
    /\ UNCHANGED <<profile, retained, tail, supplier, consumer>>

(***************************************************************************)
(* A step that fails ends its program.  A failed power_on makes genpd      *)
(* remove the device again.                                                *)
(***************************************************************************)
ProgramFails ==
    /\ run # NoRun
    /\ LET s == Programs[run.program][run.step]
           stop(e) == AdoptFault(owner, e)
           errors == IF s.kind = "refuse" THEN {"EOPNOTSUPP"} ELSE Errnos
       IN  /\ \E e \in errors :
                owner' = CASE run.program = "first_off" -> [stop(e) EXCEPT !.state = "off_failed"]
                           [] run.program = "power_on" -> Detached(stop(e))
                           [] OTHER -> stop(e)
           /\ md' \in {md, After(s)}
    /\ run' = NoRun
    /\ consumer' = IF run.program = "power_on" THEN "unbound" ELSE consumer
    /\ UNCHANGED <<profile, retained, tail, supplier>>

(***************************************************************************)
(* pm_genpd_init and the publication of the provider.  When they fail,     *)
(* mt6878_md_first_off_publication_fault keeps the error of a takeover;    *)
(* an owner without one goes with the probe.                               *)
(***************************************************************************)
Published ==
    /\ supplier = "publishing"
    /\ supplier' = "published"
    /\ UNCHANGED <<profile, md, owner, retained, tail, run, consumer>>

PublicationFails ==
    /\ supplier = "publishing"
    /\ supplier' = "absent"
    /\ \E e \in Errnos : owner' = IF retained THEN AdoptFault(owner, e) ELSE NoOwner
    /\ UNCHANGED <<profile, md, retained, tail, run, consumer>>

-----------------------------------------------------------------------------
(***************************************************************************)
(* mt6878_md_post_off_owner, for the one owner and its own supplier.       *)
(***************************************************************************)
PostOffOwner ==
    /\ owner.error = OK
    /\ retained /\ owner.held
    /\ owner.state = "off_complete" /\ ~owner.attached

\* Whether mt6878_md_adopt_attach or mt6878_md_real_boot_attach goes on to its checks.
Attachable ==
    IF profile = "real_boot"
    THEN PostOffOwner /\ tail = "gated"
    ELSE owner.error = OK /\ owner.state = "observed_on" /\ ~owner.attached

(***************************************************************************)
(* The driver core probes the consumer, under its device lock: attach,     *)
(* then power_on where the domain is off.                                  *)
(***************************************************************************)
Attach ==
    /\ supplier = "published" /\ consumer = "unbound"
    /\ Attachable
    /\ \/ /\ Passes(IF profile = "real_boot" THEN FirstOffReadback ELSE AdoptOn)
          /\ owner' = [owner EXCEPT !.attached = TRUE,
                                    !.state = IF profile = "real_boot" THEN @ ELSE "attached_on"]
          /\ consumer' = IF profile = "real_boot" THEN "attached" ELSE "powered"
       \/ /\ \E e \in Errnos : owner' = AdoptFault(owner, e)
          /\ UNCHANGED consumer
    /\ UNCHANGED <<profile, md, retained, tail, run, supplier>>

(***************************************************************************)
(* mt6878_md_real_boot_power_on up to its first write: every check fails   *)
(* with the device removed again.                                          *)
(***************************************************************************)
PowerOn ==
    /\ consumer = "attached" /\ run = NoRun
    /\ \/ /\ owner.error = OK /\ owner.state = "off_complete" /\ tail = "gated"
          /\ Passes(FirstOffReadback) /\ "gated" \in md
          /\ tail' = "power_on" /\ run' = Start("power_on")
          /\ UNCHANGED <<owner, consumer>>
       \/ /\ \E e \in Errnos \cup {"EBUSY"} : owner' = Detached(AdoptFault(owner, e))
          /\ consumer' = "unbound"
          /\ UNCHANGED <<tail, run>>
    /\ UNCHANGED <<profile, md, retained, supplier>>

\* The consumer leaves the domain: its probe failed, or it is unbound.
Detach(o) ==
    /\ owner' = Detached(o)
    /\ consumer' = "unbound"
    /\ UNCHANGED <<profile, md, retained, tail, run, supplier>>

\* External: the consumer's own probe, and its removal.
ConsumerProbed ==
    /\ consumer = "powered"
    /\ \/ consumer' = "bound" /\ UNCHANGED <<profile, ownerVars>>
       \/ Detach(owner)

ConsumerRemoved == consumer = "bound" /\ Detach(owner)

-----------------------------------------------------------------------------
SupplierStep == AdoptInit \/ ProgramStep \/ ProgramFails \/ Published \/ PublicationFails

PowerNext == SupplierStep \/ Attach \/ PowerOn \/ ConsumerProbed \/ ConsumerRemoved

PowerSpec == PowerInit /\ [][PowerNext]_powerVars

-----------------------------------------------------------------------------
(***************************************************************************)
(* While a bus to the modem is open, the modem is powered, acknowledged,   *)
(* clocked and not isolated: at every register of the OFF and of the ON    *)
(* sequence, and wherever a failed write leaves them.                      *)
(***************************************************************************)
OpenBusIsPowered == ~(Buses \subseteq md) => BootOn \subseteq md /\ {"iso", "gated"} \cap md = {}

(***************************************************************************)
(* Hardware that was touched has its owner for the rest of the boot, and   *)
(* a transaction or a publication that did not reach its end has left an   *)
(* error there that refuses every later probe and attach.                  *)
(***************************************************************************)
HalfwayIsLatched ==
    /\ md # BootOn => retained /\ owner.held
    /\ run = NoRun /\ md \notin {BootOn, Off, Off \cup {"gated"}} => owner.error # OK
    /\ run = NoRun /\ retained /\ supplier = "absent" => owner.error # OK

(***************************************************************************)
(* After the first error no register of the domain is written again: no    *)
(* clean-up, no retry, also by another probe or attach.                    *)
(***************************************************************************)
FaultFreezes == [][owner.error # OK => md' = md]_powerVars
=============================================================================
