------------------------------ MODULE Compiler ------------------------------
(***************************************************************************)
(* From a resolved spec to the pods of a run: internal/compiler (the Job,  *)
(* the workers of spec.parallel, the replicas of spec.services), and the   *)
(* policy on test pods, internal/podpolicy. A path is the sequence of its  *)
(* segments, cleaned.                                                      *)
(***************************************************************************)
EXTENDS Resolver, FiniteSets, FiniteSetsExt

CONSTANTS
    KeyOrder,           \* the keys of matrices, sorted
    ServiceAccounts,    \* the accounts the platform allows besides "default"
    AllowHostPath       \* whether it allows the node's disk
ASSUME PolicyAssumption == AllowHostPath \in BOOLEAN
ASSUME KeyAssumption == /\ KeyOrder \in Seq(STRING)
                        /\ \A i, j \in 1 .. Len(KeyOrder) : KeyOrder[i] = KeyOrder[j] => i = j

-----------------------------------------------------------------------------
(* podpolicy. A pod override sets some of PodFields.                       *)

AllowedVolumes == {"emptyDir", "configMap", "secret", "projected", "downwardAPI",
                   "persistentVolumeClaim", "ephemeral", "csi"}
BaselineCapabilities == {"AUDIT_WRITE", "CHOWN", "DAC_OVERRIDE", "FOWNER", "FSETID", "KILL", "MKNOD",
                         "NET_BIND_SERVICE", "SETFCAP", "SETGID", "SETPCAP", "SETUID", "SYS_CHROOT"}

\* A volume is [name, kind]; account and volumes as a spec or an override has them.
CheckPod(account, volumes) ==
    /\ account \in {Unset, "default"} \cup ServiceAccounts
    /\ \A i \in DOMAIN volumes : \/ volumes[i].kind \in AllowedVolumes
                                 \/ volumes[i].kind = "hostPath" /\ AllowHostPath

\* A security context is [privileged, add].
CheckContainer(sc) == sc # Unset => ~sc.privileged /\ sc.add \subseteq BaselineCapabilities

-----------------------------------------------------------------------------
(* podmerge: the TestRun's override goes over the spec's pod.              *)

PodFields == {"serviceAccountName", "nodeSelector", "tolerations", "affinity",
              "podSecurityContext", "volumes", "imagePullSecrets"}

\* An override is a function from the fields it sets, labels and annotations among them.
MergePodConfig(spec, pod) == [f \in PodFields |-> IF f \in DOMAIN pod THEN pod[f] ELSE spec[f]]

Overriding(pod, f) == IF f \in DOMAIN pod THEN pod[f] ELSE <<>>

MergeAnnotations(spec, pod) == Overriding(pod, "annotations") ++ spec.annotations

Reserved == {"run-id", "managed-by", "tool", "worker", "service-of", "service", "service-index"}

\* The operator's labels always win; a user's under its prefix are dropped.
MergeLabels(spec, pod, run) ==
    LET user == Overriding(pod, "labels") ++ spec.labels
    IN  Only("run-id", run) ++ Only("managed-by", "kubetest-alt")
          ++ [k \in DOMAIN user \ Reserved |-> user[k]]

-----------------------------------------------------------------------------
(* Content. A file is [path, from], from saying that it has a contentFrom. *)
(* A test datum is [name, kind, at, items]: the object, whether it is a    *)
(* configMap, a secret or neither, a mount path or Unset, and the exact    *)
(* paths of chosen keys.                                                   *)

DataDir == <<"data">>
RepoDir == <<"data", "repo">>
TestDataDir == <<"data", "testdata">>
PlatformDirs == {<<"kubetest-bin">>, <<"etc", "kubetest">>}
PlatformMounts == <<DataDir, <<"etc", "kubetest">>, <<"etc", "kubetest", "result">>, <<"kubetest-bin">> >>

\* What keeps the content from being handed to the fetcher and the kubelet.
ContentError(spec) ==
    \/ \E i \in DOMAIN spec.files : spec.files[i].from
    \/ \E i \in DOMAIN spec.testData : spec.testData[i].kind \notin {"configMap", "secret"}

\* Where the entries of test data are mounted.
TestDataMounts(entries) ==
    FlattenSeq([i \in DOMAIN entries |->
      IF entries[i].items # <<>> THEN entries[i].items
      ELSE <<Or(entries[i].at, Append(TestDataDir, entries[i].name))>>])

-----------------------------------------------------------------------------
(* spec.parallel: [count, maxCount, matrix, shards], numbers or Unset,     *)
(* lists by key.                                                           *)

\* Each combination so far with each value of key k.
Extended(cs, k, values) ==
    FlattenSeq([i \in DOMAIN cs |-> [j \in DOMAIN values |-> cs[i] ++ Only(k, values[j])]])

\* The combinations of a matrix, in order.
Combos(matrix) ==
    LET combos[n \in 0 .. Len(KeyOrder)] ==
        IF n = 0 THEN << <<>> >>
        ELSE IF KeyOrder[n] \in DOMAIN matrix
        THEN Extended(combos[n - 1], KeyOrder[n], matrix[KeyOrder[n]])
        ELSE combos[n - 1]
    IN  combos[Len(KeyOrder)]

Longest(shards) == Max({Len(shards[k]) : k \in DOMAIN shards})

PerCombination(p) ==
    CASE p.count # Unset -> p.count
      [] p.count = Unset /\ p.shards # <<>> ->
           Max({1, IF p.maxCount = Unset THEN Longest(p.shards)
                   ELSE Min({Longest(p.shards), p.maxCount})})
      [] OTHER -> 1

\* Variant: the remainder is dropped.
PartRounded(values, j, per) == SubSeq(values, j * (Len(values) \div per) + 1, (j + 1) * (Len(values) \div per))

\* Part j, from 0, of per contiguous, near-equal parts.
Part(values, j, per) == SubSeq(values, (j * Len(values)) \div per + 1, ((j + 1) * Len(values)) \div per)

ParallelWorkers(p) ==
    LET cs == Combos(p.matrix)
        per == PerCombination(p)
    IN  FlattenSeq([i \in DOMAIN cs |-> [j \in 1 .. per |->
          [index |-> (i - 1) * per + j - 1, count |-> Len(cs) * per, matrix |-> cs[i],
           shard |-> [k \in DOMAIN p.shards |-> Part(p.shards[k], j - 1, per)]]]])

\* The values of a worker's references, by name.
WorkerValues(w) ==
    Only(<<"worker", "index">>, <<Lit(w.index)>>) ++ Only(<<"worker", "count">>, <<Lit(w.count)>>)
      ++ [r \in {<<"matrix", k>> : k \in DOMAIN w.matrix} |-> <<Lit(w.matrix[r[2]])>>]
      ++ [r \in {<<"shard", k>> : k \in DOMAIN w.shard} |-> <<Lit(w.shard[r[2]])>>]

-----------------------------------------------------------------------------
(* spec.services: [count, matrix, args] by name.                           *)

\* One replica of a service per copy of each combination.
Replicas(svc) ==
    LET copies == IF svc.count = Unset \/ svc.count <= 0 THEN 1 ELSE svc.count
    IN  Len(Combos(svc.matrix)) * copies

\* A replica has the user's labels and its own; the run-id is the mark of the test's pod.
ServicePods(spec, pod, run) ==
    IF spec.services = Unset THEN {}
    ELSE LET user == MergeLabels(spec, pod, run)
         IN  UNION {{[pod |-> MergePodConfig(spec, pod), annotations |-> MergeAnnotations(spec, pod),
                      labels |-> Only("service-of", run) ++ Only("service", s) ++ Only("service-index", i)
                                   ++ [k \in DOMAIN user \ {"run-id"} |-> user[k]]] :
                        i \in 0 .. Replicas(spec.services[s]) - 1} : s \in DOMAIN spec.services}

-----------------------------------------------------------------------------
(* The Job.                                                                *)

\* The wrapper's environment, later entries winning: the platform's, the addresses of the
\* services, the worker's, and the Test's own.
WrapperEnv(spec, worker) ==
    <<[name |-> "KUBETEST_DATADIR", value |-> <<Lit("/data")>>]>>
      \o (IF spec.services = Unset THEN <<>>
          ELSE SetToSeq({[name |-> s, value |-> <<Lit(<<"run", s>>)>>] : s \in DOMAIN spec.services}))
      \o SetToSeq({[name |-> r, value |-> worker[r]] : r \in DOMAIN worker})
      \o spec.env

Mounts(spec) == PlatformMounts \o spec.volumeMounts \o TestDataMounts(spec.testData)

\* The texts of the spec the resolver left worker references in, filled for one worker; the
\* report's is not one of them.
SubstituteInSpec(spec, worker) ==
    [f \in TextFields |-> IF spec[f] = Unset THEN Unset ELSE SubstituteWorker(spec[f], worker)]
      ++ [f \in {"labels", "annotations"} |->
            [k \in DOMAIN spec[f] |-> SubstituteWorker(spec[f][k], worker)]]
      ++ [env |-> [i \in DOMAIN spec.env |-> [spec.env[i] EXCEPT !.value = SubstituteWorker(@, worker)]],
          artifacts |-> IF spec.artifacts = Unset THEN Unset
                        ELSE [spec.artifacts EXCEPT !.paths = SubstituteWorker(@, worker)]]
      ++ spec

\* The Job of a run, worker <<>>, or of one of its workers.
CompilePod(spec, pod, run, worker) ==
    LET s == IF worker = <<>> THEN spec ELSE SubstituteInSpec(spec, worker)
    IN  [pod |-> MergePodConfig(s, pod),
         labels |-> MergeLabels(s, pod, run),
         annotations |-> MergeAnnotations(s, pod),
         image |-> s.image,
         args |-> Or(s.command, <<>>) \o Or(s.args, <<>>),
         env |-> WrapperEnv(s, worker),
         artifacts |-> s.artifacts,
         securityContext |-> s.securityContext,
         mounts |-> Mounts(s),
         deadline |-> Or(s.timeout, 30) + 1]

\* What the API server requires of the mounts of a container (external).
Accepted(job) == \A i, j \in DOMAIN job.mounts : i # j => job.mounts[i] # job.mounts[j]
=============================================================================
