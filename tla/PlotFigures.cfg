SPECIFICATION Spec
CONSTANTS
  Plots = {p1, p2, p3}
  PlotMenu <- MCPlotMenu
  MaxNumber = 3
  NoFigure = NoFigure
SYMMETRY Symmetry
INVARIANTS PlotInv FiguresAccounted ImageIsOwn
