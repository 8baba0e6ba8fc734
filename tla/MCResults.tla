----------------------------- MODULE MCResults ------------------------------
(* The state behind a result, when_any over N results, a shared result with  *)
(* its clients, a lazy result (the one of when_all), a generator, the        *)
(* storage of outcomes and coroutines submitted to executors.  They share no *)
(* variable, so each behaviour is of one of them.  One value and one         *)
(* exception are enough to tell which outcome was seen.                      *)
EXTENDS ResultsProofs, Coroutines, Naturals, FiniteSets

ASSUME SomeClient == IsFiniteSet(Client) /\ Client # {}

MCOutcome == {"value", "exception"}

VARIABLE part  \* the component that this behaviour is of

anyVars == <<anyProcessStatus, anyConsumerStatus, anyPpc, anyFreed, ctx, pc,
             i, index>>
sharedVars == <<sharedProcessStatus, sharedConsumerStatus, sharedFreed,
                sharedPpc, spc, fin, status, ready, awaiters, calling,
                sharedCpc, before, dpc, pushed, called>>
subVars == <<subPc, at, target, hopped, result, subCalled, subQueue, shut>>

Parts == {"result", "when_any", "shared", "lazy", "generator", "store",
          "submit"}

SuiteInit ==
  /\ part \in Parts
  /\ Init
  /\ Any!Init
  /\ Sub!Init
  /\ Shared!Init
  /\ FramesInit /\ (part # "store" => kind = "value")

(* One component takes its steps and the others stay as they began.          *)
SuiteNext ==
  /\ UNCHANGED part
  /\ \/ part = "result" /\ Next
        /\ UNCHANGED <<anyVars, sharedVars, lazyVars, generatorVars, storeVars, subVars>>
     \/ part = "when_any" /\ Any!Next
        /\ UNCHANGED <<vars, sharedVars, lazyVars, generatorVars, storeVars, subVars>>
     \/ part = "shared" /\ Shared!Next
        /\ UNCHANGED <<vars, anyVars, lazyVars, generatorVars, storeVars, subVars>>
     \/ part = "lazy" /\ LazyNext
        /\ UNCHANGED <<vars, anyVars, sharedVars, generatorVars, storeVars, subVars>>
     \/ part = "generator" /\ GeneratorNext
        /\ UNCHANGED <<vars, anyVars, sharedVars, lazyVars, storeVars, subVars>>
     \/ part = "store" /\ StoreNext
        /\ UNCHANGED <<vars, anyVars, sharedVars, lazyVars, generatorVars, subVars>>
     \/ part = "submit" /\ Sub!Next
        /\ UNCHANGED <<vars, anyVars, sharedVars, lazyVars, generatorVars, storeVars>>
     \/ part \in {"when_any", "lazy", "generator", "store", "submit"}  \* it may stop
        /\ UNCHANGED <<vars, anyVars, sharedVars, lazyVars, generatorVars, storeVars, subVars>>

suiteVars == <<part, vars, anyVars, sharedVars, lazyVars, generatorVars, storeVars, subVars>>

SuiteSpec ==
  /\ SuiteInit /\ [][SuiteNext]_suiteVars
  /\ WF_vars(part = "result" /\ (Produce \/ Abandon))
  /\ WF_vars(part = "result" /\ ProducerStep)
  /\ WF_vars(part = "result" /\ ConsumerStep)
  /\ WF_anyVars(part = "when_any" /\ Any!Coroutine)
  /\ \A r \in Any!Results : WF_anyVars(part = "when_any" /\ Any!Resume(r))
  /\ WF_sharedVars(part = "shared" /\ Shared!Construct)
  /\ WF_sharedVars(part = "shared" /\ Shared!CompleteProducer)
  /\ WF_sharedVars(part = "shared" /\ Shared!ProducerStep)
  /\ WF_sharedVars(part = "shared" /\ Shared!OnFinished)
  /\ WF_sharedVars(part = "shared" /\ Shared!Destroy)
  /\ \A c \in Client : WF_sharedVars(part = "shared" /\ Shared!ClientStep(c))
  /\ WF_lazyVars(part = "lazy" /\ (Await \/ Resume \/ Step \/ Hop))
  /\ \A k \in 1..Inputs : WF_lazyVars(part = "lazy" /\ Complete(k))
  /\ \A j \in Jobs : WF_subVars(part = "submit" /\ Sub!Body(j))
  /\ \A e \in Executors : WF_subVars(part = "submit" /\ Sub!Work(e))
  /\ WF_subVars(part = "submit" /\ (\E e \in Executors : Sub!BulkEnqueue(e)))

-----------------------------------------------------------------------------
(* Whoever waits is let go: a blocked or suspended consumer of a result, the *)
(* coroutine in when_any once a result resumes it, every client of a shared  *)
(* result, the caller of a lazy one, and whoever submitted a callable.       *)
WaitersReleased ==
  /\ ConsumerUnblocks
  /\ Any!RegisteredResumes
  /\ Shared!ClientUnblocks
  /\ CallerResumes
  /\ Sub!SubmittedSettles
=============================================================================
