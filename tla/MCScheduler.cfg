CONSTANTS
  t1 = t1  t2 = t2  t3 = t3  r1 = r1  r2 = r2
  FifoLen = 3
  TaskId <- Ids3
  Regs = {r1, r2}
  KernelRegs = kernelregs
  Zero = zero
  NoTask = notask
SPECIFICATION FairSpec
INVARIANTS TypeOK CurrentIsCaller SlotsDistinct KernelResumes
PROPERTIES Refinement NoStarvation
