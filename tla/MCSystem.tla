------------------------------ MODULE MCSystem ------------------------------
(***************************************************************************)
(* What changes the host as a whole: the kernel tasks, or the deployment   *)
(* from its first provisioning to its removal.  They share no state.       *)
(***************************************************************************)
EXTENDS Kernel, Lifecycle

MCVersions == {<<7, 2>>, <<7, 10>>}
MCPublished == [arch : {"x86_64"}, version : {<<7, 2>>}, profile : Profiles]
\* The stock kernel has the module as well; the published ones do not carry
\* every control an operator may have chosen.
MCOffers == [k \in Kernels \cup {Stock} |->
                IF k = Stock THEN {"cubic", "htcp", "bbr"} ELSE {"cubic", "bbr"}]

Hop == [name |-> "Hysteria2", protocol |-> "hysteria2", port |-> 1]
Web == [name |-> "VLESS", protocol |-> "vless", port |-> 2]
Ann(words, quota) == [name |-> "ann", words |-> words, quota |-> quota]
Bob == [name |-> "bob", words |-> {}, quota |-> 2]

\* The second document extends the first, narrows its account and moves the
\* subscription service.
MCDocuments ==
    {[nodes |-> <<Hop>>, accounts |-> <<Ann({}, 0)>>, domain |-> TRUE,
      sub |-> 0],
     [nodes |-> <<Hop, Web>>, accounts |-> <<Ann({"vless"}, 2), Bob>>,
      domain |-> TRUE, sub |-> 4]}

VARIABLE kind

SystemInit ==
    /\ kind \in {"kernel", "deployment"} /\ Init /\ LifeInit
    /\ kind = "deployment" => live.qdisc = "fq" /\ live.congestion = "cubic"
                              /\ stamp = {}

SystemNext ==
    /\ UNCHANGED kind
    /\ \/ kind = "kernel" /\ Next /\ UNCHANGED lifeVars
       \/ kind = "deployment" /\ LifeNext /\ UNCHANGED vars

systemVars == <<kind, vars, lifeVars>>
SystemSpec == SystemInit /\ [][SystemNext]_systemVars
=============================================================================
